---- MODULE Spec2Model ----
(***************************************************************************)
(* State-machine model of sistema-gestao-igreja: the registration path     *)
(* with its tenant slug allocator, the panel's access context, permission  *)
(* gate and scope checks, the account soft-delete and the cell transfer,    *)
(* all running against a PostgreSQL store (READ COMMITTED transactions,     *)
(* unique indexes, row locks).                                              *)
(***************************************************************************)
EXTENDS Integers, Sequences, FiniteSets, TLC

VARIABLES
  db,     \* the committed rows of every table (each row carries its table in .tbl)
  tx,     \* per request: the open transaction (rows inserted, rows replaced, failed flag)
  pc,     \* per request: the statement the handler executes next
  loc,    \* per request: the handler's local variables
  out,    \* per request: the HTTP response (status 0 = not answered yet)
  trace,  \* per request: what the handler has done so far (observation only)
  tokens  \* per client: the access token it holds (localStorage "sgi_access_token")

vars == <<db, tx, pc, loc, out, trace, tokens>>

(***************************************************************************)
(* Bounds of the model                                                      *)
(***************************************************************************)
NumRegistrations == 2     \* concurrent POST /auth/register requests

(***************************************************************************)
(* Characters and strings. A string is a sequence of one-character tokens;  *)
(* "c," and "a~" stand for the accented letters c-cedilla and a-tilde.      *)
(***************************************************************************)
LowerLetters == {"a", "c", "e", "g", "i", "j", "r", "v", "x", "b"}
Digits == {"0", "1", "2", "3", "4", "5", "6", "7", "8", "9"}

\* String.prototype.normalize("NFD") followed by the removal of U+0300..U+036F
StripDiacritic(c) ==
  CASE c = "c," -> "c"
    [] c = "a~" -> "a"
    [] c = "C," -> "C"
    [] OTHER -> c

\* String.prototype.toLowerCase / SQL lower(), one character
LowerChar(c) ==
  CASE c = "A" -> "a"
    [] c = "B" -> "b"
    [] c = "C" -> "c"
    [] c = "G" -> "g"
    [] c = "I" -> "i"
    [] c = "R" -> "r"
    [] c = "V" -> "v"
    [] c = "C," -> "c,"
    [] OTHER -> c

Lower(s) == [i \in 1..Len(s) |-> LowerChar(s[i])]

StripDiacritics(s) == [i \in 1..Len(s) |-> StripDiacritic(s[i])]

IsSlugAlnum(c) == c \in LowerLetters \cup Digits

\* .replace(/[^a-z0-9]+/g, "-")
ReplaceNonAlnumRuns(s) ==
  LET F[i \in 0..Len(s)] ==
        IF i = 0 THEN <<>>
        ELSE IF IsSlugAlnum(s[i]) THEN Append(F[i - 1], s[i])
        ELSE IF i > 1 /\ ~IsSlugAlnum(s[i - 1]) THEN F[i - 1]
        ELSE Append(F[i - 1], "-")
  IN F[Len(s)]

\* .replace(/^-+|-+$/g, "")
TrimDashes(s) ==
  LET NonDash == {i \in 1..Len(s) : s[i] # "-"}
      Lo == CHOOSE i \in NonDash : \A j \in NonDash : i <= j
      Hi == CHOOSE i \in NonDash : \A j \in NonDash : i >= j
  IN IF NonDash = {} THEN <<>> ELSE SubSeq(s, Lo, Hi)

\* .replace(/-{2,}/g, "-")
CollapseDashes(s) ==
  LET F[i \in 0..Len(s)] ==
        IF i = 0 THEN <<>>
        ELSE IF s[i] = "-" /\ i > 1 /\ s[i - 1] = "-" THEN F[i - 1]
        ELSE Append(F[i - 1], s[i])
  IN F[Len(s)]

\* String.prototype.slice(0, n)
Slice0(s, n) == IF Len(s) <= n THEN s ELSE SubSeq(s, 1, n)

MaxSlugLen == 60
FallbackBaseLen == 50
MaxAttempts == 200

DefaultBase == <<"i", "g", "r", "e", "j", "a">>

slugifyChurchName(value) ==
  LET base == Slice0(CollapseDashes(TrimDashes(ReplaceNonAlnumRuns(
                Lower(StripDiacritics(value))))), MaxSlugLen)
  IN IF base = <<>> THEN DefaultBase ELSE base

\* String(n) for n >= 0
RECURSIVE DecimalString(_)
DecimalString(n) ==
  LET d == CHOOSE c \in Digits :
             c = <<"0", "1", "2", "3", "4", "5", "6", "7", "8", "9">>[(n % 10) + 1]
  IN IF n < 10 THEN <<d>> ELSE Append(DecimalString(n \div 10), d)

Max(a, b) == IF a >= b THEN a ELSE b

\* (variant) the suffix is appended to the whole base
buildSlugCandidateUncut(base, attempt) ==
  IF attempt = 0 THEN base ELSE base \o <<"-">> \o DecimalString(attempt + 1)

buildSlugCandidate(base, attempt) ==
  IF attempt = 0 THEN base
  ELSE LET suffix == DecimalString(attempt + 1)
           maxBaseLength == Max(1, MaxSlugLen - Len(suffix) - 1)
       IN Slice0(base, maxBaseLength) \o <<"-">> \o suffix

\* Date.now().toString(36): some non-empty string over [0-9a-z]
TimeStamps == {<<"j", "x", "1">>, <<"j", "x", "2">>}

FallbackSlug(base, stamp) == Slice0(Slice0(base, FallbackBaseLen) \o <<"-">> \o stamp, MaxSlugLen)

(***************************************************************************)
(* The PostgreSQL store. Every statement of a request runs READ COMMITTED:  *)
(* it sees the committed rows plus the rows its own transaction wrote.      *)
(***************************************************************************)
NULL == <<>>

Id(kind, owner, n) == <<kind, owner, n>>

NoToken == [userId |-> NULL, tenantId |-> NULL, role |-> ""]

\* signAccessToken / verifyAccessToken: the claims a valid token carries
signAccessToken(userId, tenantId, role) == [userId |-> userId, tenantId |-> tenantId, role |-> role]

NoTx == [open |-> FALSE, failed |-> FALSE, ins |-> {}, del |-> {}]

Rows(rows, t) == {r \in rows : r.tbl = t}

View(p) == (db \ tx[p].del) \cup tx[p].ins

\* rows written by the transactions of the other requests, not yet committed
Uncommitted(p) == UNION {tx[q].ins : q \in DOMAIN tx \ {p}}

\* client.query("BEGIN;")
BeginTx == [open |-> TRUE, failed |-> FALSE, ins |-> {}, del |-> {}]

\* the committed rows after client.query("COMMIT;") of request p
CommitDb(p) == (db \ tx[p].del) \cup tx[p].ins

\* (variant) the catch block leaves the work of the transaction in place
RollbackDbKeepsWork(p) == (db \ tx[p].del) \cup tx[p].ins

\* (variant) the catch block leaves the inserted rows in place
RollbackDbKeepsInserts(p) == db \cup tx[p].ins

\* the committed rows after client.query("ROLLBACK;") of request p
RollbackDb(p) == db

\* after a statement of an open transaction failed, PostgreSQL rejects every
\* further statement of that transaction (SQLSTATE 25P02) until ROLLBACK
InFailedTx(p) == tx[p].open /\ tx[p].failed

PgError(code, constraint) == [kind |-> "DatabaseError", code |-> code, constraint |-> constraint]
AppError(statusCode) == [kind |-> "AppError", code |-> "", constraint |-> "", statusCode |-> statusCode]
Fault == [kind |-> "Error", code |-> "", constraint |-> ""]
NoError == [kind |-> "none", code |-> "", constraint |-> ""]

\* (variant) the tenants table without its unique index
SlugNeverTaken(rows, slug) == FALSE

\* CREATE UNIQUE INDEX tenants_slug_unique ON tenants (LOWER(slug))
SlugTaken(rows, slug) == \E t \in Rows(rows, "tenants") : Lower(t.slug) = Lower(slug)

\* CREATE UNIQUE INDEX users_email_unique_active ON users (LOWER(email)) WHERE deleted_at IS NULL
EmailTaken(rows, email) ==
  \E u \in Rows(rows, "users") : ~u.deleted /\ Lower(u.email) = Lower(email)

\* the status the error middleware answers with
errorMiddleware(error) ==
  IF error.kind = "ZodError" THEN 400
  ELSE IF error.kind = "AppError" THEN error.statusCode
  ELSE 500

(***************************************************************************)
(* POST /auth/register                                                      *)
(***************************************************************************)
RegProcs == 1..NumRegistrations

ChurchNames ==
  { <<"G", "r", "a", "c,", "a", " ", "V", "i", "v", "a">>,
    <<"!", "!", "!">> }

Emails == { <<"A", "@", "x">>, <<"a", "@", "x">>, <<"b", "@", "x">> }

TenantIdOf(p) == Id("tenant", p, 0)
UserIdOf(p) == Id("user", p, 0)
NetworkIdOf(p) == Id("network", p, 0)
CellIdOf(p) == Id("cell", p, 0)
ParticipantIdOf(p, i) == Id("participant", p, i)

TenantRow(p, name, slug) ==
  [tbl |-> "tenants", id |-> TenantIdOf(p), name |-> name, slug |-> slug, is_active |-> TRUE]

UserRow(p, email) ==
  [tbl |-> "users", id |-> UserIdOf(p), email |-> email, is_active |-> TRUE, deleted |-> FALSE]

MemberRow(tenantId, userId, role) ==
  [tbl |-> "tenant_members", tenant_id |-> tenantId, user_id |-> userId, role |-> role,
   is_active |-> TRUE]

LinkRow(participantId, cellId, tenantId, type, active) ==
  [tbl |-> "participant_cell_links", participant_id |-> participantId, cell_id |-> cellId,
   tenant_id |-> tenantId, type |-> type, is_active |-> active]

SeedType(index) == IF index = 0 THEN "visitor" ELSE IF index = 1 THEN "congregated" ELSE "member"

\* the statements of seedInitialTenantData, in the order the code issues them
SeedPlan ==
  << [k |-> "network", i |-> 0], [k |-> "cell", i |-> 0],
     [k |-> "network_scope", i |-> 0], [k |-> "cell_scope", i |-> 0] >>
  \o [n \in 1..9 |->
        [k |-> <<"participant", "link", "history">>[((n - 1) % 3) + 1], i |-> (n - 1) \div 3]]
  \o [w \in 1..4 |-> [k |-> "attendance", i |-> w - 1]]
  \o << [k |-> "finance", i |-> 0], [k |-> "gd", i |-> 0] >>

\* the rows one statement of seedInitialTenantData inserts for registration p
SeedRows(p, stmt) ==
  LET t == TenantIdOf(p)
      u == UserIdOf(p)
      n == NetworkIdOf(p)
      c == CellIdOf(p)
      k == stmt.k
      i == stmt.i
  IN CASE k = "network" ->
            {[tbl |-> "church_networks", id |-> n, tenant_id |-> t, is_active |-> TRUE]}
       [] k = "cell" ->
            {[tbl |-> "cells", id |-> c, tenant_id |-> t, network_id |-> n, is_active |-> TRUE]}
       [] k = "network_scope" ->
            {[tbl |-> "user_network_scopes", tenant_id |-> t, user_id |-> u, network_id |-> n]}
       [] k = "cell_scope" ->
            {[tbl |-> "user_cell_scopes", tenant_id |-> t, user_id |-> u, cell_id |-> c]}
       [] k = "participant" ->
            {[tbl |-> "participants", id |-> ParticipantIdOf(p, i), tenant_id |-> t]}
       [] k = "link" ->
            {LinkRow(ParticipantIdOf(p, i), c, t, SeedType(i), TRUE)}
       [] k = "history" ->
            {[tbl |-> "participant_status_history", id |-> Id("history", p, i), tenant_id |-> t,
              participant_id |-> ParticipantIdOf(p, i), from_type |-> "", to_type |-> SeedType(i)]}
       [] k = "attendance" ->
            {[tbl |-> "attendance_entries", tenant_id |-> t, cell_id |-> c, week |-> i]}
       [] k = "finance" ->
            {[tbl |-> "finance_entries", id |-> Id("finance", p, d), tenant_id |-> t] : d \in {0, 1}}
       [] k = "gd" ->
            {[tbl |-> "gd_controls", id |-> Id("gd", p, 0), tenant_id |-> t, network_id |-> n,
              cell_id |-> c]}

RegLocals == [church |-> <<>>, email |-> <<>>, attempt |-> 0, seedIdx |-> 1]
RegTrace == [err |-> NoError, slugRejects |-> 0, failedAt |-> ""]

\* the handler's catch block: ROLLBACK, release the client, rethrow to the error middleware
ThrowNoting(p, error, noted) ==
  /\ db' = RollbackDb(p)
  /\ tx' = [tx EXCEPT ![p] = NoTx]
  /\ pc' = [pc EXCEPT ![p] = "done"]
  /\ out' = [out EXCEPT ![p] = [status |-> errorMiddleware(error), rows |-> {}]]
  /\ trace' = [trace EXCEPT ![p] = [noted EXCEPT !.err = error, !.failedAt = pc[p]]]
  /\ UNCHANGED tokens

Throw(p, error) == ThrowNoting(p, error, trace[p])

\* one INSERT of request p's open transaction succeeds
TxInsert(p, rows, nextPc) ==
  /\ tx' = [tx EXCEPT ![p].ins = @ \cup rows]
  /\ pc' = [pc EXCEPT ![p] = nextPc]
  /\ UNCHANGED <<db, out, trace, tokens>>

\* parse the payload, lower-case the email, connect, BEGIN
RegStart(p) ==
  /\ pc[p] = "idle"
  /\ \E church \in ChurchNames, email \in Emails :
       loc' = [loc EXCEPT ![p] = [RegLocals EXCEPT !.church = church, !.email = Lower(email)]]
  /\ tx' = [tx EXCEPT ![p] = BeginTx]
  /\ pc' = [pc EXCEPT ![p] = "check_email"]
  /\ UNCHANGED <<db, out, trace, tokens>>

\* SELECT id FROM users WHERE lower(email) = lower($1) AND deleted_at IS NULL
RegCheckEmail(p) ==
  /\ pc[p] = "check_email"
  /\ IF EmailTaken(View(p), loc[p].email)
       THEN Throw(p, AppError(409)) /\ UNCHANGED loc
       ELSE /\ pc' = [pc EXCEPT ![p] = "tenant"]
            /\ UNCHANGED <<db, tx, loc, out, trace, tokens>>

\* createTenantWithInternalSlug: one INSERT INTO tenants of the retry loop, or the fallback one
RegInsertTenant(p) ==
  /\ pc[p] = "tenant"
  /\ LET base == slugifyChurchName(loc[p].church)
         inLoop == loc[p].attempt < MaxAttempts
     IN \E stamp \in (IF inLoop THEN {<<>>} ELSE TimeStamps) :
          LET candidate == IF inLoop THEN buildSlugCandidate(base, loc[p].attempt)
                           ELSE FallbackSlug(base, stamp)
          IN IF InFailedTx(p)
               THEN Throw(p, PgError("25P02", "")) /\ UNCHANGED loc
             ELSE IF SlugTaken(View(p), candidate)
               THEN IF inLoop
                      THEN \* 23505 on tenants_slug_unique: caught, continue with the next attempt
                           /\ tx' = [tx EXCEPT ![p].failed = TRUE]
                           /\ loc' = [loc EXCEPT ![p].attempt = @ + 1]
                           /\ trace' = [trace EXCEPT ![p].slugRejects = @ + 1]
                           /\ UNCHANGED <<db, pc, out, tokens>>
                      ELSE Throw(p, PgError("23505", "tenants_slug_unique")) /\ UNCHANGED loc
             ELSE /\ ~SlugTaken(Uncommitted(p), candidate)   \* else the INSERT waits
                  /\ TxInsert(p, {TenantRow(p, loc[p].church, candidate)}, "user")
                  /\ UNCHANGED loc

\* INSERT INTO users (full_name, email, password_hash)
RegInsertUser(p) ==
  /\ pc[p] = "user"
  /\ IF InFailedTx(p)
       THEN Throw(p, PgError("25P02", "")) /\ UNCHANGED loc
     ELSE IF EmailTaken(View(p), loc[p].email)
       THEN Throw(p, PgError("23505", "users_email_unique_active")) /\ UNCHANGED loc
     ELSE /\ ~EmailTaken(Uncommitted(p), loc[p].email)       \* else the INSERT waits
          /\ TxInsert(p, {UserRow(p, loc[p].email)}, "member")
          /\ UNCHANGED loc

\* INSERT INTO tenant_members (tenant_id, user_id, role) VALUES ($1, $2, 'admin_geral')
RegInsertMember(p) ==
  /\ pc[p] = "member"
  /\ TxInsert(p, {MemberRow(TenantIdOf(p), UserIdOf(p), "admin_geral")}, "seed")
  /\ UNCHANGED loc

\* seedInitialTenantData: its next statement
RegSeedStep(p) ==
  /\ pc[p] = "seed"
  /\ TxInsert(p, SeedRows(p, SeedPlan[loc[p].seedIdx]),
              IF loc[p].seedIdx = Len(SeedPlan) THEN "commit" ELSE "seed")
  /\ loc' = [loc EXCEPT ![p].seedIdx = @ + 1]

\* COMMIT, sign the token, answer 201
RegCommit(p) ==
  /\ pc[p] = "commit"
  /\ db' = CommitDb(p)
  /\ tx' = [tx EXCEPT ![p] = NoTx]
  /\ pc' = [pc EXCEPT ![p] = "done"]
  /\ out' = [out EXCEPT ![p] = [status |-> 201, userId |-> UserIdOf(p),
                                tenantId |-> TenantIdOf(p), role |-> "admin_geral"]]
  /\ tokens' = [tokens EXCEPT ![p] = signAccessToken(UserIdOf(p), TenantIdOf(p), "admin_geral")]
  /\ UNCHANGED <<loc, trace>>

\* any statement after BEGIN may fail for a reason of the datastore (connection lost,
\* statement timeout): the error reaches the catch block
RegFault(p) ==
  /\ pc[p] \in {"check_email", "tenant", "user", "member", "seed", "commit"}
  /\ Throw(p, Fault)
  /\ loc' = [loc EXCEPT ![p].seedIdx = 1]       \* the handler's locals end with the request

InitReg ==
  /\ db = {}
  /\ tx = [p \in RegProcs |-> NoTx]
  /\ pc = [p \in RegProcs |-> "idle"]
  /\ loc = [p \in RegProcs |-> RegLocals]
  /\ out = [p \in RegProcs |-> [status |-> 0]]
  /\ trace = [p \in RegProcs |-> RegTrace]
  /\ tokens = [p \in RegProcs |-> NoToken]

NextReg ==
  \E p \in RegProcs :
    \/ RegStart(p)
    \/ RegCheckEmail(p)
    \/ RegInsertTenant(p)
    \/ RegInsertUser(p)
    \/ RegInsertMember(p)
    \/ RegSeedStep(p)
    \/ RegCommit(p)
    \/ RegFault(p)

SpecReg == InitReg /\ [][NextReg]_vars

(***************************************************************************)
(* createTenantWithInternalSlug on its own: one call of the allocator for   *)
(* any church name, against a tenants table that already holds some of the  *)
(* candidates, on a client that is inside a transaction (as the register    *)
(* handler passes it) or not.                                               *)
(***************************************************************************)
MaxNameLen == 2           \* characters of a short church name

SlugProcs == {1}

\* the kinds of character slugifyChurchName tells apart
NameChars == {"a", "C,", "!", "9"}

ShortNames == UNION {[1..n -> NameChars] : n \in 0..MaxNameLen}

\* church names around the 60 characters a slug may have
LongNames ==
  {[i \in 1..59 |-> "x"] \o tail :
     tail \in {<<>>, <<"a">>, <<"C,">>, <<"!">>, <<"!", "a">>, <<"a", "!", "9">>}}

AllocNames == ShortNames \cup LongNames

\* how many of the candidates 0, 1, 2, ... other tenants hold already
TakenCounts == {0, 1, 2, MaxAttempts}

TakenRow(slug, n) ==
  [tbl |-> "tenants", id |-> Id("tenant", 0, n), name |-> <<>>, slug |-> slug, is_active |-> TRUE]

TakenRows(base, taken, stamps) ==
  {TakenRow(buildSlugCandidate(base, k), k) : k \in 0..(taken - 1)}
    \cup {TakenRow(FallbackSlug(base, s), MaxAttempts) : s \in stamps}

AllocLocals == [church |-> <<>>, attempt |-> 0]
AllocTrace ==
  [err |-> NoError, failedAt |-> "", inserts |-> 0, rejects |-> 0, candidate |-> <<>>,
   last |-> "none"]

\* (variant) every database error is taken for a slug collision
IsAnyDatabaseError(error) == error.kind = "DatabaseError"

\* dbError.code === "23505" && dbError.constraint === "tenants_slug_unique"
IsSlugConflict(error) == error.code = "23505" /\ error.constraint = "tenants_slug_unique"

\* (variant) the loop never gives up
InLoopForever(attempt) == TRUE

\* for (let attempt = 0; attempt < 200; attempt += 1)
InLoop(attempt) == attempt < MaxAttempts

\* the error INSERT INTO tenants (name, slug) raises on request p's client, if any
InsertTenantError(p, candidate) ==
  IF InFailedTx(p) THEN PgError("25P02", "")
  ELSE IF SlugTaken(View(p), candidate) THEN PgError("23505", "tenants_slug_unique")
  ELSE NoError

\* the INSERT succeeded: the row is written (into the open transaction, if there is one)
\* and the allocator returns it
AllocReturn(p, candidate, noted) ==
  /\ IF tx[p].open
       THEN tx' = [tx EXCEPT ![p].ins = @ \cup {TenantRow(p, loc[p].church, candidate)}]
            /\ UNCHANGED db
       ELSE db' = db \cup {TenantRow(p, loc[p].church, candidate)} /\ UNCHANGED tx
  /\ pc' = [pc EXCEPT ![p] = "returned"]
  /\ trace' = [trace EXCEPT ![p] = [noted EXCEPT !.last = "accepted"]]
  /\ UNCHANGED <<loc, out, tokens>>

\* one INSERT of the retry loop
AllocLoopInsert(p) ==
  /\ pc[p] = "tenant"
  /\ InLoop(loc[p].attempt)
  /\ LET candidate == buildSlugCandidate(slugifyChurchName(loc[p].church), loc[p].attempt)
         error == InsertTenantError(p, candidate)
         noted == [trace[p] EXCEPT !.inserts = @ + 1, !.candidate = candidate]
     IN IF error = NoError
          THEN AllocReturn(p, candidate, noted)
        ELSE IF IsSlugConflict(error)
          THEN \* continue
               /\ loc' = [loc EXCEPT ![p].attempt = @ + 1]
               /\ tx' = [tx EXCEPT ![p].failed = tx[p].open]
               /\ trace' = [trace EXCEPT ![p] = [noted EXCEPT !.rejects = @ + 1, !.err = error,
                                                               !.last = "rejected"]]
               /\ UNCHANGED <<db, pc, out, tokens>>
        ELSE ThrowNoting(p, error, [noted EXCEPT !.last = "failed"]) /\ UNCHANGED loc

\* the INSERT after the loop, outside any try
AllocFallbackInsert(p) ==
  /\ pc[p] = "tenant"
  /\ ~InLoop(loc[p].attempt)
  /\ \E stamp \in TimeStamps :
       LET candidate == FallbackSlug(slugifyChurchName(loc[p].church), stamp)
           error == InsertTenantError(p, candidate)
           noted == [trace[p] EXCEPT !.inserts = @ + 1, !.candidate = candidate]
       IN IF error = NoError
            THEN AllocReturn(p, candidate, noted)
            ELSE ThrowNoting(p, error, [noted EXCEPT !.last = "failed"]) /\ UNCHANGED loc

\* the INSERT fails for a reason of the datastore (connection lost, statement timeout)
AllocInsertFault(p) ==
  /\ pc[p] = "tenant"
  /\ \E stamp \in (IF InLoop(loc[p].attempt) THEN {<<>>} ELSE TimeStamps) :
       LET base == slugifyChurchName(loc[p].church)
           candidate == IF InLoop(loc[p].attempt) THEN buildSlugCandidate(base, loc[p].attempt)
                        ELSE FallbackSlug(base, stamp)
       IN ThrowNoting(p, Fault, [trace[p] EXCEPT !.inserts = @ + 1, !.candidate = candidate,
                                                 !.last = "failed"])
  /\ UNCHANGED loc

InitSlug ==
  /\ \E church \in AllocNames, taken \in TakenCounts, stamps \in SUBSET TimeStamps :
       /\ taken < MaxAttempts => stamps = {}
       /\ Cardinality(stamps) <= 1
       /\ db = TakenRows(slugifyChurchName(church), taken, stamps)
       /\ loc = [p \in SlugProcs |-> [AllocLocals EXCEPT !.church = church]]
  /\ tx \in [SlugProcs -> {NoTx, BeginTx}]
  /\ pc = [p \in SlugProcs |-> "tenant"]
  /\ out = [p \in SlugProcs |-> [status |-> 0, rows |-> {}]]
  /\ trace = [p \in SlugProcs |-> AllocTrace]
  /\ tokens = [p \in SlugProcs |-> NoToken]

NextSlug ==
  \E p \in SlugProcs :
    \/ AllocLoopInsert(p)
    \/ AllocFallbackInsert(p)
    \/ AllocInsertFault(p)

SpecSlug == InitSlug /\ [][NextSlug]_vars

(***************************************************************************)
(* Roles and permissions (src/panel/permissions.ts)                         *)
(***************************************************************************)
PanelRoles == {"admin_geral", "pastor_presidente", "pastor_rede", "lider_celula", "secretaria"}

\* the values of the tenant_role enum
MemberRoles == {"owner", "admin", "leader", "member"} \cup PanelRoles

ModuleKeys ==
  {"dashboard", "cells_admin", "discipleship", "consolidation", "leadership_school",
   "pastor_presidente", "pastor_rede", "lider_celula", "email"}

allActions == {"view", "create", "edit", "delete", "export", "print"}
readActions == {"view", "export", "print"}
editorActions == {"view", "create", "edit", "export", "print"}

PermissionMatrix(dashboard, cellsAdmin, discipleship, consolidation, leadershipSchool, pastorPresidente, pastorRede, liderCelula, email) ==
  [m \in ModuleKeys |->
     CASE m = "dashboard" -> dashboard
       [] m = "cells_admin" -> cellsAdmin
       [] m = "discipleship" -> discipleship
       [] m = "consolidation" -> consolidation
       [] m = "leadership_school" -> leadershipSchool
       [] m = "pastor_presidente" -> pastorPresidente
       [] m = "pastor_rede" -> pastorRede
       [] m = "lider_celula" -> liderCelula
       [] m = "email" -> email]

\* (variant) every role is given the matrix of the secretaria
rolePermissionsOfSecretaria ==
  [role \in PanelRoles |->
     [scope |-> "all",
      modules |-> PermissionMatrix(readActions, editorActions, editorActions, editorActions,
                                   readActions, readActions, readActions, readActions,
                                   editorActions)]]

rolePermissions ==
  [role \in PanelRoles |->
     CASE role = "admin_geral" ->
            [scope |-> "all", modules |-> [m \in ModuleKeys |-> allActions]]
       [] role = "pastor_presidente" ->
            [scope |-> "all",
             modules |-> PermissionMatrix(readActions, editorActions, readActions, editorActions,
                                          readActions, editorActions, readActions, readActions,
                                          editorActions)]
       [] role = "pastor_rede" ->
            [scope |-> "network",
             modules |-> PermissionMatrix(readActions, {"view"}, readActions, editorActions,
                                          readActions, {}, editorActions, readActions,
                                          editorActions)]
       [] role = "lider_celula" ->
            [scope |-> "cell",
             modules |-> PermissionMatrix(readActions, {"view"}, editorActions, editorActions,
                                          readActions, {}, {}, editorActions, editorActions)]
       [] role = "secretaria" ->
            [scope |-> "all",
             modules |-> PermissionMatrix(readActions, editorActions, editorActions,
                                          editorActions, readActions, readActions, readActions,
                                          readActions, editorActions)]]

\* (variant) the alias table without its member entry
normalizePanelRoleWithoutMember(role) ==
  CASE role \in {"owner", "admin"} -> "admin_geral"
    [] role = "leader" -> "lider_celula"
    [] OTHER -> role

\* roleAliases[role] ?? role
normalizePanelRole(role) ==
  CASE role \in {"owner", "admin"} -> "admin_geral"
    [] role \in {"leader", "member"} -> "lider_celula"
    [] OTHER -> role

getRoleScope(role) == rolePermissions[role].scope

canAccess(role, module, action) == action \in rolePermissions[role].modules[module]

\* normalizeRole of the auth routes: the role written into a login token
normalizeRole(role) ==
  IF role \in {"owner", "admin"} THEN "admin_geral"
  ELSE IF role = "leader" THEN "lider_celula"
  ELSE role

(***************************************************************************)
(* The panel: data the requests run against                                 *)
(***************************************************************************)
NumSessions == 1          \* requests in flight at a time in the session runs

\* the two churches of the panel runs, as two committed registrations left them
Clients == {1, 2}

WorldChurch == << <<"G", "r", "a", "c,", "a">>, <<"!", "!", "!">> >>
WorldEmail == << <<"a", "@", "x">>, <<"b", "@", "x">> >>

\* the seeded tables the modelled panel routes read or write
PanelSeedKinds == {"network", "cell", "network_scope", "cell_scope", "participant", "link", "gd"}

Provisioned(i) ==
  {TenantRow(i, WorldChurch[i], buildSlugCandidate(slugifyChurchName(WorldChurch[i]), 0)),
   UserRow(i, WorldEmail[i]),
   MemberRow(TenantIdOf(i), UserIdOf(i), "admin_geral")}
  \cup UNION {SeedRows(i, SeedPlan[k]) : k \in {j \in 1..Len(SeedPlan) : SeedPlan[j].k \in PanelSeedKinds}}

\* a second network with one cell in church 1; no route creates networks or cells, the
\* operator of the installation inserts them
SecondNetworkId == Id("network", 1, 1)
SecondCellId == Id("cell", 1, 1)

OperatorRows ==
  {[tbl |-> "church_networks", id |-> SecondNetworkId, tenant_id |-> TenantIdOf(1), is_active |-> TRUE],
   [tbl |-> "cells", id |-> SecondCellId, tenant_id |-> TenantIdOf(1),
    network_id |-> SecondNetworkId, is_active |-> TRUE]}

World == Provisioned(1) \cup Provisioned(2) \cup OperatorRows

(***************************************************************************)
(* The panel: access context and permission gate                            *)
(***************************************************************************)
NoGate == [module |-> "", action |-> ""]
Gate(module, action) == [module |-> module, action |-> action]

NoCtx == [userId |-> NULL, tenantId |-> NULL, role |-> "", scope |-> "",
          networkIds |-> {}, cellIds |-> {}]

NoBody == [sourceCellId |-> NULL, destinationCellId |-> NULL, participantIds |-> {},
           cellId |-> NULL, networkId |-> NULL, participantId |-> NULL, id |-> NULL, q |-> ""]

NoRow == [tbl |-> "", participant_id |-> NULL, type |-> ""]

PanelLocals == [route |-> "", auth |-> NoToken, body |-> NoBody, ctx |-> NoCtx, cells |-> {},
                work |-> <<>>, rows |-> {}, row |-> NoRow]

\* what the committed rows said of a session when its context was loaded
NoSeen == [loaded |-> FALSE, user |-> FALSE, tenant |-> FALSE, member |-> FALSE, role |-> ""]

\* begun: whether the committed rows held an active session for the token when the
\* request arrived
PanelTrace == [err |-> NoError, failedAt |-> "", begun |-> FALSE, seen |-> NoSeen,
               gate |-> FALSE, ungated |-> FALSE, wrote |-> FALSE]

SessionFlags(rows, userId, tenantId) ==
  LET members == {tm \in Rows(rows, "tenant_members") :
                    tm.user_id = userId /\ tm.tenant_id = tenantId}
  IN [loaded |-> TRUE,
      user |-> \E u \in Rows(rows, "users") : u.id = userId /\ u.is_active /\ ~u.deleted,
      tenant |-> \E t \in Rows(rows, "tenants") : t.id = tenantId /\ t.is_active,
      member |-> \E tm \in members : tm.is_active,
      role |-> IF members = {} THEN "" ELSE (CHOOSE tm \in members : TRUE).role]

SessionActive(rows, auth) ==
  LET flags == SessionFlags(rows, auth.userId, auth.tenantId)
  IN flags.user /\ flags.tenant /\ flags.member

\* (variant) the membership query without its is_active and deleted_at conditions
SessionRowsOfAnyState(rows, userId, tenantId) ==
  {tm \in Rows(rows, "tenant_members") : tm.user_id = userId /\ tm.tenant_id = tenantId}

\* the membership query of loadAccessContext
SessionRows(rows, userId, tenantId) ==
  {tm \in Rows(rows, "tenant_members") :
     /\ tm.user_id = userId
     /\ tm.tenant_id = tenantId
     /\ tm.is_active
     /\ \E u \in Rows(rows, "users") : u.id = userId /\ u.is_active /\ ~u.deleted
     /\ \E t \in Rows(rows, "tenants") : t.id = tenantId /\ t.is_active}

\* (variant) the context takes the role the token carries
ContextRoleFromToken(row, auth) == normalizePanelRole(auth.role)

\* const role = normalizePanelRole(row.role)
ContextRole(row, auth) == normalizePanelRole(row.role)

\* (variant) a user is given every network of the church
NetworkScopeIdsOfTenant(rows, tenantId, userId) ==
  {n.id : n \in {r \in Rows(rows, "church_networks") : r.tenant_id = tenantId}}

NetworkScopeIds(rows, tenantId, userId) ==
  {s.network_id : s \in {r \in Rows(rows, "user_network_scopes") :
                           r.tenant_id = tenantId /\ r.user_id = userId}}

CellScopeIds(rows, tenantId, userId) ==
  {s.cell_id : s \in {r \in Rows(rows, "user_cell_scopes") :
                        r.tenant_id = tenantId /\ r.user_id = userId}}

\* (variant) the query without its scope condition
getVisibleCellsOfTenant(rows, ctx) ==
  {c \in Rows(rows, "cells") : c.tenant_id = ctx.tenantId /\ c.is_active}

\* the cells a context may see; the inner join drops a cell whose network row is missing
getVisibleCells(rows, ctx) ==
  {c \in Rows(rows, "cells") :
     /\ c.tenant_id = ctx.tenantId
     /\ c.is_active
     /\ \E n \in Rows(rows, "church_networks") : n.id = c.network_id
     /\ CASE ctx.scope = "network" -> c.network_id \in ctx.networkIds
          [] ctx.scope = "cell" -> c.id \in ctx.cellIds
          [] OTHER -> TRUE}

\* getVisibleCells answers [] without a query when a scoped context has no scope rows
VisibleCellsQueries(ctx) ==
  ~ \/ ctx.scope = "network" /\ ctx.networkIds = {}
    \/ ctx.scope = "cell" /\ ctx.cellIds = {}

\* the permission each modelled route asserts, and whether it calls getVisibleCells next
PanelRouteTable ==
  [me                 |-> [gate |-> NoGate, visible |-> FALSE],
   search             |-> [gate |-> NoGate, visible |-> TRUE],
   cells              |-> [gate |-> Gate("cells_admin", "view"), visible |-> TRUE],
   transfers_context  |-> [gate |-> Gate("cells_admin", "view"), visible |-> TRUE],
   transfers          |-> [gate |-> Gate("cells_admin", "create"), visible |-> TRUE],
   president_gd_get   |-> [gate |-> Gate("pastor_presidente", "view"), visible |-> FALSE],
   president_gd_post  |-> [gate |-> Gate("pastor_presidente", "create"), visible |-> FALSE],
   consolidation_get  |-> [gate |-> Gate("consolidation", "view"), visible |-> FALSE],
   consolidation_post |-> [gate |-> Gate("consolidation", "create"), visible |-> TRUE],
   dashboard          |-> [gate |-> Gate("dashboard", "view"), visible |-> TRUE],
   leader_components  |-> [gate |-> Gate("lider_celula", "view"), visible |-> TRUE],
   consolidation_list |-> [gate |-> Gate("consolidation", "view"), visible |-> TRUE],
   network_gd         |-> [gate |-> Gate("pastor_rede", "view"), visible |-> FALSE],
   promote            |-> [gate |-> Gate("lider_celula", "edit"), visible |-> TRUE]]

AfterGate(route) == IF PanelRouteTable[route].visible THEN "visible" ELSE route

AfterContext(route) == IF PanelRouteTable[route].gate = NoGate THEN AfterGate(route) ELSE "gate"

\* response.status(status).json(...), the client released
Respond(p, status, rows) ==
  /\ pc' = [pc EXCEPT ![p] = "done"]
  /\ out' = [out EXCEPT ![p] = [status |-> status, rows |-> rows]]

\* a statement of request p reads or writes panel data
Touch(p) == [trace[p] EXCEPT !.ungated = @ \/ ~trace[p].gate]

\* loadAccessContext: the membership query, the role and its scope
PanelLoad(p) ==
  /\ pc[p] = "load"
  /\ LET auth == loc[p].auth
         found == SessionRows(View(p), auth.userId, auth.tenantId)
         noted == [trace[p] EXCEPT !.seen = SessionFlags(db, auth.userId, auth.tenantId)]
     IN IF found = {}
          THEN ThrowNoting(p, AppError(401), noted) /\ UNCHANGED loc
          ELSE LET row == CHOOSE tm \in found : TRUE
                   role == ContextRole(row, auth)
                   scope == getRoleScope(role)
               IN /\ loc' = [loc EXCEPT ![p].ctx =
                               [userId |-> row.user_id, tenantId |-> row.tenant_id,
                                role |-> role, scope |-> scope, networkIds |-> {},
                                cellIds |-> {}]]
                  /\ pc' = [pc EXCEPT ![p] = IF scope = "all" THEN AfterContext(loc[p].route)
                                             ELSE "load_scopes"]
                  /\ trace' = [trace EXCEPT ![p] = noted]
                  /\ UNCHANGED <<db, tx, out, tokens>>

\* (variant) both scope queries run whatever the scope
PanelLoadBothScopes(p) ==
  /\ pc[p] = "load_scopes"
  /\ LET ctx == loc[p].ctx
     IN loc' = [loc EXCEPT
                  ![p].ctx.networkIds = NetworkScopeIds(View(p), ctx.tenantId, ctx.userId),
                  ![p].ctx.cellIds = CellScopeIds(View(p), ctx.tenantId, ctx.userId)]
  /\ pc' = [pc EXCEPT ![p] = AfterContext(loc[p].route)]
  /\ UNCHANGED <<db, tx, out, trace, tokens>>

\* loadAccessContext: the scope rows of a network- or cell-scoped role
PanelLoadScopes(p) ==
  /\ pc[p] = "load_scopes"
  /\ LET ctx == loc[p].ctx
     IN loc' = [loc EXCEPT
                  ![p].ctx.networkIds = IF ctx.scope = "network"
                                          THEN NetworkScopeIds(View(p), ctx.tenantId, ctx.userId)
                                          ELSE {},
                  ![p].ctx.cellIds = IF ctx.scope = "cell"
                                       THEN CellScopeIds(View(p), ctx.tenantId, ctx.userId)
                                       ELSE {}]
  /\ pc' = [pc EXCEPT ![p] = AfterContext(loc[p].route)]
  /\ UNCHANGED <<db, tx, out, trace, tokens>>

\* (variant) the gate asks for the view permission whatever the action
assertPermissionToView(ctx, module, action) == canAccess(ctx.role, module, "view")

assertPermission(ctx, module, action) == canAccess(ctx.role, module, action)

\* assertPermission(ctx, module, action) of the route
PanelGate(p) ==
  /\ pc[p] = "gate"
  /\ LET gate == PanelRouteTable[loc[p].route].gate
     IN IF assertPermission(loc[p].ctx, gate.module, gate.action)
          THEN /\ pc' = [pc EXCEPT ![p] = AfterGate(loc[p].route)]
               /\ trace' = [trace EXCEPT ![p].gate = TRUE]
               /\ UNCHANGED <<db, tx, loc, out, tokens>>
          ELSE Throw(p, AppError(403)) /\ UNCHANGED loc

\* const cells = await getVisibleCells(client, ctx)
PanelVisible(p) ==
  /\ pc[p] = "visible"
  /\ loc' = [loc EXCEPT ![p].cells = getVisibleCells(View(p), loc[p].ctx)]
  /\ pc' = [pc EXCEPT ![p] = loc[p].route]
  /\ trace' = [trace EXCEPT ![p] = IF VisibleCellsQueries(loc[p].ctx) THEN Touch(p) ELSE @]
  /\ UNCHANGED <<db, tx, out, tokens>>

\* requireAuth accepted the token of client c; the handler parsed the request
PanelStart(p, clients, routes, bodies) ==
  /\ pc[p] = "idle"
  /\ \E c \in clients, route \in routes, body \in bodies :
       /\ tokens[c] # NoToken
       /\ loc' = [loc EXCEPT ![p] = [PanelLocals EXCEPT !.route = route, !.auth = tokens[c],
                                                        !.body = body]]
       /\ trace' = [trace EXCEPT ![p].begun = SessionActive(db, tokens[c])]
  /\ pc' = [pc EXCEPT ![p] = "load"]
  /\ UNCHANGED <<db, tx, out, tokens>>

\* GET /panel/cells
PanelCells(p) ==
  /\ pc[p] = "cells"
  /\ Respond(p, 200, loc[p].cells)
  /\ UNCHANGED <<db, tx, loc, trace, tokens>>

\* GET /panel/president/gd
PresidentGdGet(p) ==
  /\ pc[p] = "president_gd_get"
  /\ Respond(p, 200, {g \in Rows(View(p), "gd_controls") : g.tenant_id = loc[p].ctx.tenantId})
  /\ trace' = [trace EXCEPT ![p] = Touch(p)]
  /\ UNCHANGED <<db, tx, loc, tokens>>

(***************************************************************************)
(* POST /auth/login and DELETE /auth/me                                     *)
(***************************************************************************)
\* (variant) the session query compares the e-mail as it is stored with the e-mail as typed
LoginRowsByExactEmail(rows, email) ==
  {tm \in Rows(rows, "tenant_members") :
     /\ tm.is_active
     /\ \E u \in Rows(rows, "users") :
          u.id = tm.user_id /\ u.email = email /\ u.is_active /\ ~u.deleted
     /\ \E t \in Rows(rows, "tenants") : t.id = tm.tenant_id /\ t.is_active}

\* the session query of the login route
LoginRows(rows, email) ==
  {tm \in Rows(rows, "tenant_members") :
     /\ tm.is_active
     /\ \E u \in Rows(rows, "users") :
          u.id = tm.user_id /\ Lower(u.email) = Lower(email) /\ u.is_active /\ ~u.deleted
     /\ \E t \in Rows(rows, "tenants") : t.id = tm.tenant_id /\ t.is_active}

\* ORDER BY tm.created_at ASC LIMIT 1: memberships are created in the order of their churches
FirstMembership(found) == CHOOSE tm \in found : \A o \in found : tm.tenant_id[2] <= o.tenant_id[2]

\* POST /auth/login of client c with its own e-mail and password; a 401 changes nothing
Login(c) ==
  /\ LET found == LoginRows(db, WorldEmail[c])
     IN IF found = {}
          THEN UNCHANGED tokens
          ELSE LET row == FirstMembership(found)
               IN tokens' = [tokens EXCEPT ![c] =
                               signAccessToken(row.user_id, row.tenant_id, normalizeRole(row.role))]
  /\ UNCHANGED <<db, tx, pc, loc, out, trace>>

\* an UPDATE waits while another open transaction has written one of its target rows
Locked(p, rows) == \E q \in DOMAIN tx \ {p} : rows \cap tx[q].del # {}

TxUpdate(p, old, new, nextPc) ==
  /\ tx' = [tx EXCEPT ![p].del = @ \cup (old \cap db), ![p].ins = (@ \ old) \cup new]
  /\ pc' = [pc EXCEPT ![p] = nextPc]

\* DELETE /auth/me: requireAuth, connect, BEGIN
AuthDeleteStart(p, clients) ==
  /\ pc[p] = "idle"
  /\ \E c \in clients :
       /\ tokens[c] # NoToken
       /\ loc' = [loc EXCEPT ![p] = [PanelLocals EXCEPT !.route = "auth_delete_me",
                                                        !.auth = tokens[c]]]
  /\ tx' = [tx EXCEPT ![p] = BeginTx]
  /\ pc' = [pc EXCEPT ![p] = "delete_member"]
  /\ UNCHANGED <<db, out, trace, tokens>>

\* UPDATE tenant_members SET is_active = FALSE ... RETURNING tm.tenant_id
AuthDeleteMember(p) ==
  /\ pc[p] = "delete_member"
  /\ LET auth == loc[p].auth
         target == {tm \in Rows(View(p), "tenant_members") :
                      /\ tm.tenant_id = auth.tenantId
                      /\ tm.user_id = auth.userId
                      /\ tm.is_active
                      /\ \E t \in Rows(View(p), "tenants") : t.id = tm.tenant_id /\ t.is_active}
     IN IF target = {}
          THEN Throw(p, AppError(404)) /\ UNCHANGED loc
          ELSE /\ ~Locked(p, target)
               /\ TxUpdate(p, target, {[tm EXCEPT !.is_active = FALSE] : tm \in target},
                           "delete_count")
               /\ UNCHANGED <<db, loc, out, trace, tokens>>

\* SELECT COUNT(*) FROM tenant_members WHERE user_id = $1 AND is_active = TRUE
AuthDeleteCount(p) ==
  /\ pc[p] = "delete_count"
  /\ LET total == Cardinality({tm \in Rows(View(p), "tenant_members") :
                                 tm.user_id = loc[p].auth.userId /\ tm.is_active})
     IN pc' = [pc EXCEPT ![p] = IF total = 0 THEN "delete_user" ELSE "delete_commit"]
  /\ UNCHANGED <<db, tx, loc, out, trace, tokens>>

\* UPDATE users SET is_active = FALSE, deleted_at = NOW() WHERE id = $1 AND deleted_at IS NULL
AuthDeleteUser(p) ==
  /\ pc[p] = "delete_user"
  /\ LET target == {u \in Rows(View(p), "users") : u.id = loc[p].auth.userId /\ ~u.deleted}
     IN /\ ~Locked(p, target)
        /\ TxUpdate(p, target, {[u EXCEPT !.is_active = FALSE, !.deleted = TRUE] : u \in target},
                    "delete_commit")
  /\ UNCHANGED <<db, loc, out, trace, tokens>>

\* COMMIT, 204
AuthDeleteCommit(p) ==
  /\ pc[p] = "delete_commit"
  /\ db' = CommitDb(p)
  /\ tx' = [tx EXCEPT ![p] = NoTx]
  /\ Respond(p, 204, {})
  /\ trace' = [trace EXCEPT ![p].wrote = TRUE]
  /\ UNCHANGED <<loc, tokens>>

(***************************************************************************)
(* Changes no route makes: the operator of the installation edits rows      *)
(***************************************************************************)
OperatorUpdate(old, new) ==
  /\ old \subseteq db
  /\ \A q \in DOMAIN tx : old \cap tx[q].del = {}
  /\ new \cap db = {}
  /\ db' = (db \ old) \cup new
  /\ UNCHANGED <<tx, pc, loc, out, trace, tokens>>

\* UPDATE tenant_members SET role = ... for the member of church 1
OperatorSetRole(role) ==
  \E tm \in Rows(db, "tenant_members") :
    /\ tm.tenant_id = TenantIdOf(1)
    /\ OperatorUpdate({tm}, {[tm EXCEPT !.role = role]})

\* UPDATE tenants SET is_active = FALSE for church 1
OperatorDeactivateTenant ==
  \E t \in Rows(db, "tenants") :
    /\ t.id = TenantIdOf(1)
    /\ t.is_active
    /\ OperatorUpdate({t}, {[t EXCEPT !.is_active = FALSE]})

\* the roles the operator gives the member of church 1 in these runs
OperatorRoles == {"admin_geral", "pastor_rede", "member"}

InitPanel(procs, rows) ==
  /\ db = rows
  /\ tx = [p \in procs |-> NoTx]
  /\ pc = [p \in procs |-> "idle"]
  /\ loc = [p \in procs |-> PanelLocals]
  /\ out = [p \in procs |-> [status |-> 0, rows |-> {}]]
  /\ trace = [p \in procs |-> PanelTrace]
  /\ tokens = [c \in Clients |-> signAccessToken(UserIdOf(c), TenantIdOf(c), "admin_geral")]

\* the response is sent and the client released: the server takes the next request
NextRequest(p) ==
  /\ pc[p] = "done"
  /\ pc' = [pc EXCEPT ![p] = "idle"]
  /\ loc' = [loc EXCEPT ![p] = PanelLocals]
  /\ out' = [out EXCEPT ![p] = [status |-> 0, rows |-> {}]]
  /\ trace' = [trace EXCEPT ![p] = PanelTrace]
  /\ UNCHANGED <<db, tx, tokens>>

(***************************************************************************)
(* Panel routes that read and write church data                             *)
(***************************************************************************)
NumRequests == 2          \* panel requests of one run of the data routes

RequestProcs == 1..NumRequests

GhostCellId == Id("cell", 9, 9)      \* a well-formed uuid no row carries

\* rows a request creates get ids no seeded row has
NewId(kind, p) == Id(kind, 0, p)

Ids(rows) == {r.id : r \in rows}

\* participants of the church with an active link to one of the cells
ParticipantsOfCells(rows, tenantId, cellIds) ==
  {pt \in Rows(rows, "participants") :
     /\ pt.tenant_id = tenantId
     /\ \E l \in Rows(rows, "participant_cell_links") :
          l.participant_id = pt.id /\ l.is_active /\ l.cell_id \in cellIds}

\* GET /panel/me answers from the context alone
PanelMe(p) ==
  /\ pc[p] = "me"
  /\ Respond(p, 200, {})
  /\ UNCHANGED <<db, tx, loc, trace, tokens>>

\* GET /panel/search with a query shorter than two characters: answered before connecting
PanelSearchShort(p, clients) ==
  /\ pc[p] = "idle"
  /\ \E c \in clients :
       /\ tokens[c] # NoToken
       /\ loc' = [loc EXCEPT ![p] = [PanelLocals EXCEPT !.route = "search", !.auth = tokens[c]]]
       /\ trace' = [trace EXCEPT ![p].begun = SessionActive(db, tokens[c])]
  /\ Respond(p, 200, {})
  /\ UNCHANGED <<db, tx, tokens>>

\* GET /panel/search: every name matches the query
PanelSearch(p) ==
  /\ pc[p] = "search"
  /\ IF loc[p].cells = {}
       THEN Respond(p, 200, {}) /\ UNCHANGED trace
       ELSE /\ Respond(p, 200, loc[p].cells \cup
                 ParticipantsOfCells(View(p), loc[p].ctx.tenantId, Ids(loc[p].cells)))
            /\ trace' = [trace EXCEPT ![p] = Touch(p)]
  /\ UNCHANGED <<db, tx, loc, tokens>>

\* GET /panel/transfers/context
PanelTransfersContext(p) ==
  /\ pc[p] = "transfers_context"
  /\ LET source == loc[p].body.sourceCellId
     IN IF source = NULL
          THEN Respond(p, 200, loc[p].cells) /\ UNCHANGED <<db, tx, loc, trace, tokens>>
        ELSE IF source \notin Ids(loc[p].cells)
          THEN Throw(p, AppError(403)) /\ UNCHANGED loc
        ELSE /\ Respond(p, 200, loc[p].cells \cup
                  ParticipantsOfCells(View(p), loc[p].ctx.tenantId, {source}))
             /\ trace' = [trace EXCEPT ![p] = Touch(p)]
             /\ UNCHANGED <<db, tx, loc, tokens>>

\* the foreign keys of gd_controls: REFERENCES church_networks(id), REFERENCES cells(id)
GdReferencesExist(rows, networkId, cellId) ==
  /\ networkId = NULL \/ networkId \in Ids(Rows(rows, "church_networks"))
  /\ cellId = NULL \/ cellId \in Ids(Rows(rows, "cells"))

\* POST /panel/president/gd: one INSERT INTO gd_controls, committed on its own
PresidentGdPost(p) ==
  /\ pc[p] = "president_gd_post"
  /\ LET body == loc[p].body
     IN IF ~GdReferencesExist(View(p), body.networkId, body.cellId)
          THEN ThrowNoting(p, PgError("23503", "gd_controls_fkey"), Touch(p)) /\ UNCHANGED loc
          ELSE /\ db' = db \cup {[tbl |-> "gd_controls", id |-> NewId("gd", p),
                                  tenant_id |-> loc[p].ctx.tenantId,
                                  network_id |-> body.networkId, cell_id |-> body.cellId]}
               /\ Respond(p, 201, {})
               /\ trace' = [trace EXCEPT ![p] = [Touch(p) EXCEPT !.wrote = TRUE]]
               /\ UNCHANGED <<tx, loc, tokens>>

\* GET /panel/consolidation/:id: the record of the church joined with its participant
PanelConsolidationGet(p) ==
  /\ pc[p] = "consolidation_get"
  /\ LET records == {cr \in Rows(View(p), "consolidation_records") :
                       /\ cr.id = loc[p].body.id
                       /\ cr.tenant_id = loc[p].ctx.tenantId
                       /\ cr.participant_id \in Ids(Rows(View(p), "participants"))}
     IN IF records = {}
          THEN ThrowNoting(p, AppError(404), Touch(p)) /\ UNCHANGED loc
          ELSE /\ Respond(p, 200, records \cup
                    {pt \in Rows(View(p), "participants") :
                       \E cr \in records : pt.id = cr.participant_id})
               /\ trace' = [trace EXCEPT ![p] = Touch(p)]
               /\ UNCHANGED <<db, tx, loc, tokens>>

\* ORDER BY n.name, c.name: the seeded cell sorts before the operator's
FirstCell(cells) == CHOOSE c \in cells : \A o \in cells : c.id[3] <= o.id[3]

\* POST /panel/consolidation: no visible cell is a 400, else BEGIN
PanelConsolidationPost(p) ==
  /\ pc[p] = "consolidation_post"
  /\ IF loc[p].cells = {}
       THEN Throw(p, AppError(400)) /\ UNCHANGED loc
       ELSE /\ tx' = [tx EXCEPT ![p] = BeginTx]
            /\ pc' = [pc EXCEPT ![p] = "consolidation_participant"]
            /\ UNCHANGED <<db, loc, out, trace, tokens>>

\* without a participantId: INSERT INTO participants, INSERT INTO participant_cell_links
PanelConsolidationParticipant(p) ==
  /\ pc[p] = "consolidation_participant"
  /\ IF loc[p].body.participantId # NULL
       THEN /\ loc' = [loc EXCEPT ![p].work = <<loc[p].body.participantId>>]
            /\ pc' = [pc EXCEPT ![p] = "consolidation_record"]
            /\ UNCHANGED <<db, tx, out, trace, tokens>>
       ELSE LET tenantId == loc[p].ctx.tenantId
                created == NewId("participant", p)
            IN /\ TxInsert(p, {[tbl |-> "participants", id |-> created, tenant_id |-> tenantId],
                               LinkRow(created, FirstCell(loc[p].cells).id, tenantId,
                                       "visitor", TRUE)},
                           "consolidation_record")
               /\ loc' = [loc EXCEPT ![p].work = <<created>>]

\* INSERT INTO consolidation_records; participant_id REFERENCES participants(id)
PanelConsolidationRecord(p) ==
  /\ pc[p] = "consolidation_record"
  /\ LET participantId == loc[p].work[1]
     IN IF participantId \notin Ids(Rows(View(p), "participants"))
          THEN ThrowNoting(p, PgError("23503", "consolidation_records_participant_id_fkey"),
                           Touch(p))
               /\ UNCHANGED loc
          ELSE /\ TxInsert(p, {[tbl |-> "consolidation_records",
                                id |-> NewId("consolidation", p),
                                tenant_id |-> loc[p].ctx.tenantId,
                                participant_id |-> participantId]},
                           "consolidation_commit")
               /\ UNCHANGED loc

\* COMMIT, 201
PanelConsolidationCommit(p) ==
  /\ pc[p] = "consolidation_commit"
  /\ db' = CommitDb(p)
  /\ tx' = [tx EXCEPT ![p] = NoTx]
  /\ Respond(p, 201, {})
  /\ trace' = [trace EXCEPT ![p] = [Touch(p) EXCEPT !.wrote = TRUE]]
  /\ UNCHANGED <<loc, tokens>>

DataRoutes ==
  {"me", "search", "cells", "transfers_context", "president_gd_get", "president_gd_post",
   "consolidation_get", "consolidation_post"}

\* the requests of the data runs: ids of the caller's church, of the other church, none
DataBodies(route) ==
  CASE route = "transfers_context" ->
         {[NoBody EXCEPT !.sourceCellId = c] : c \in {NULL, CellIdOf(1), CellIdOf(2)}}
    [] route = "president_gd_post" ->
         {[NoBody EXCEPT !.cellId = c, !.networkId = n] :
            c \in {NULL, CellIdOf(1), CellIdOf(2), GhostCellId},
            n \in {NULL, NetworkIdOf(1), NetworkIdOf(2)}}
    [] route = "consolidation_get" ->
         {[NoBody EXCEPT !.id = NewId("consolidation", q)] : q \in RequestProcs}
    [] route = "consolidation_post" ->
         {[NoBody EXCEPT !.participantId = pt] :
            pt \in {NULL, ParticipantIdOf(1, 0), ParticipantIdOf(2, 0)}}
    [] OTHER -> {NoBody}

InitData == InitPanel(RequestProcs, World)

NextData ==
  \/ \E p \in RequestProcs :
       \/ \E route \in DataRoutes : PanelStart(p, Clients, {route}, DataBodies(route))
       \/ PanelSearchShort(p, Clients)
       \/ PanelLoad(p)
       \/ PanelLoadScopes(p)
       \/ PanelGate(p)
       \/ PanelVisible(p)
       \/ PanelMe(p)
       \/ PanelSearch(p)
       \/ PanelCells(p)
       \/ PanelTransfersContext(p)
       \/ PresidentGdGet(p)
       \/ PresidentGdPost(p)
       \/ PanelConsolidationGet(p)
       \/ PanelConsolidationPost(p)
       \/ PanelConsolidationParticipant(p)
       \/ PanelConsolidationRecord(p)
       \/ PanelConsolidationCommit(p)
  \/ \E role \in OperatorRoles : OperatorSetRole(role)

SpecData == InitData /\ [][NextData]_vars

(***************************************************************************)
(* Sessions: token holders against the membership rows                      *)
(***************************************************************************)
AccessRoutes == {"search", "cells", "president_gd_get"}

SessionProcs == 1..NumSessions

\* a cell of church 1 that was closed (is_active = FALSE), in its first network
ClosedCell ==
  [tbl |-> "cells", id |-> Id("cell", 1, 2), tenant_id |-> TenantIdOf(1),
   network_id |-> NetworkIdOf(1), is_active |-> FALSE]

InitAccess == InitPanel(SessionProcs, World \cup {ClosedCell})

NextAccess ==
  \/ \E p \in SessionProcs :
       \/ NextRequest(p)
       \/ PanelStart(p, {1}, AccessRoutes, {NoBody})
       \/ PanelSearchShort(p, {1})
       \/ PanelLoad(p)
       \/ PanelLoadScopes(p)
       \/ PanelGate(p)
       \/ PanelVisible(p)
       \/ PanelSearch(p)
       \/ PanelCells(p)
       \/ PresidentGdGet(p)
       \/ AuthDeleteStart(p, {1})
       \/ AuthDeleteMember(p)
       \/ AuthDeleteCount(p)
       \/ AuthDeleteUser(p)
       \/ AuthDeleteCommit(p)
  \/ Login(1)
  \/ \E role \in OperatorRoles : OperatorSetRole(role)
  \/ OperatorDeactivateTenant

SpecAccess == InitAccess /\ [][NextAccess]_vars

(***************************************************************************)
(* POST /panel/transfers                                                    *)
(***************************************************************************)
NumTransfers == 1         \* transfer requests of one run

TransferProcs == 1..NumTransfers

\* source and destination cells of the requests: inside the church, across churches, equal
TransferCells ==
  {<<CellIdOf(1), SecondCellId>>, <<SecondCellId, CellIdOf(1)>>, <<CellIdOf(1), CellIdOf(2)>>,
   <<CellIdOf(1), CellIdOf(1)>>}

\* participantIds of the requests: one, two, one twice, the one transferred earlier, one
\* of the other church
TransferParticipants ==
  {<<ParticipantIdOf(1, 0)>>, <<ParticipantIdOf(1, 0), ParticipantIdOf(1, 2)>>,
   <<ParticipantIdOf(1, 0), ParticipantIdOf(1, 0)>>, <<ParticipantIdOf(1, 1)>>,
   <<ParticipantIdOf(2, 0)>>}

TransferBodies(cells) ==
  {[NoBody EXCEPT !.sourceCellId = c[1], !.destinationCellId = c[2], !.participantIds = ids] :
     c \in cells, ids \in TransferParticipants}

Range(seq) == {seq[i] : i \in DOMAIN seq}

\* sourceCellId === destinationCellId: 400 before a connection is taken
PanelTransfersSameCell(p, clients) ==
  /\ pc[p] = "idle"
  /\ \E c \in clients, body \in TransferBodies({c \in TransferCells : c[1] = c[2]}) :
       /\ tokens[c] # NoToken
       /\ loc' = [loc EXCEPT ![p] = [PanelLocals EXCEPT !.route = "transfers",
                                                        !.auth = tokens[c], !.body = body]]
       /\ ThrowNoting(p, AppError(400), [trace[p] EXCEPT !.begun = SessionActive(db, tokens[c])])

\* both cells must be visible, else 403; BEGIN
PanelTransfers(p) ==
  /\ pc[p] = "transfers"
  /\ IF ~({loc[p].body.sourceCellId, loc[p].body.destinationCellId} \subseteq Ids(loc[p].cells))
       THEN Throw(p, AppError(403)) /\ UNCHANGED loc
       ELSE /\ tx' = [tx EXCEPT ![p] = BeginTx]
            /\ pc' = [pc EXCEPT ![p] = "transfer_select"]
            /\ UNCHANGED <<db, loc, out, trace, tokens>>

\* (variant) the query without its is_active condition
SourceRowsOfAnyState(rows, tenantId, cellId, participantIds) ==
  {l \in Rows(rows, "participant_cell_links") :
     /\ l.tenant_id = tenantId
     /\ l.cell_id = cellId
     /\ l.participant_id \in participantIds}

\* the active links of the requested participants in the source cell
SourceRows(rows, tenantId, cellId, participantIds) ==
  {l \in Rows(rows, "participant_cell_links") :
     /\ l.tenant_id = tenantId
     /\ l.cell_id = cellId
     /\ l.participant_id \in participantIds
     /\ l.is_active}

\* SELECT participant_id, type ...; rowCount must equal participantIds.length, else 400
PanelTransferSelect(p) ==
  /\ pc[p] = "transfer_select"
  /\ LET body == loc[p].body
         sourceRows == SourceRows(View(p), loc[p].ctx.tenantId, body.sourceCellId,
                                  Range(body.participantIds))
     IN IF Cardinality(sourceRows) # Len(body.participantIds)
          THEN ThrowNoting(p, AppError(400), Touch(p)) /\ UNCHANGED loc
          ELSE /\ loc' = [loc EXCEPT ![p].work = sourceRows, ![p].rows = sourceRows]
               /\ pc' = [pc EXCEPT ![p] = "transfer_log"]
               /\ trace' = [trace EXCEPT ![p] = Touch(p)]
               /\ UNCHANGED <<db, tx, out, tokens>>

\* INSERT INTO transfer_logs ... RETURNING id
PanelTransferLog(p) ==
  /\ pc[p] = "transfer_log"
  /\ TxInsert(p, {[tbl |-> "transfer_logs", id |-> NewId("transfer", p),
                   tenant_id |-> loc[p].ctx.tenantId,
                   source_cell_id |-> loc[p].body.sourceCellId,
                   destination_cell_id |-> loc[p].body.destinationCellId]},
              "transfer_deactivate")
  /\ UNCHANGED loc

\* the loop takes the next source row, in the order the SELECT returned them, and
\* deactivates its link: UPDATE participant_cell_links SET is_active = FALSE
PanelTransferDeactivate(p) ==
  /\ pc[p] = "transfer_deactivate"
  /\ \E row \in loc[p].rows :
       LET target == {l \in Rows(View(p), "participant_cell_links") :
                        /\ l.participant_id = row.participant_id
                        /\ l.cell_id = loc[p].body.sourceCellId
                        /\ l.tenant_id = loc[p].ctx.tenantId
                        /\ l.is_active}
       IN /\ ~Locked(p, target)
          /\ TxUpdate(p, target, {[l EXCEPT !.is_active = FALSE] : l \in target},
                      "transfer_upsert")
          /\ loc' = [loc EXCEPT ![p].rows = @ \ {row}, ![p].row = row]
  /\ UNCHANGED <<db, out, trace, tokens>>

\* (variant) INSERT ... ON CONFLICT (participant_id, cell_id) DO NOTHING
PanelTransferUpsertDoNothing(p) ==
  /\ pc[p] = "transfer_upsert"
  /\ LET row == loc[p].row
         dest == loc[p].body.destinationCellId
         sameKey(l) == l.participant_id = row.participant_id /\ l.cell_id = dest
         existing == {l \in Rows(View(p), "participant_cell_links") : sameKey(l)}
     IN /\ ~Locked(p, existing)
        /\ ~\E l \in Rows(Uncommitted(p), "participant_cell_links") : sameKey(l)
        /\ IF existing = {}
             THEN TxInsert(p, {LinkRow(row.participant_id, dest, loc[p].ctx.tenantId,
                                       row.type, TRUE)}, "transfer_participant")
             ELSE /\ pc' = [pc EXCEPT ![p] = "transfer_participant"]
                  /\ UNCHANGED <<db, tx, out, trace, tokens>>
  /\ UNCHANGED loc

\* INSERT INTO participant_cell_links ... ON CONFLICT (participant_id, cell_id) DO UPDATE
PanelTransferUpsert(p) ==
  /\ pc[p] = "transfer_upsert"
  /\ LET row == loc[p].row
         dest == loc[p].body.destinationCellId
         sameKey(l) == l.participant_id = row.participant_id /\ l.cell_id = dest
         existing == {l \in Rows(View(p), "participant_cell_links") : sameKey(l)}
     IN /\ ~Locked(p, existing)
        /\ ~\E l \in Rows(Uncommitted(p), "participant_cell_links") : sameKey(l)
        /\ IF existing = {}
             THEN TxInsert(p, {LinkRow(row.participant_id, dest, loc[p].ctx.tenantId,
                                       row.type, TRUE)}, "transfer_participant")
             ELSE /\ TxUpdate(p, existing,
                              {[l EXCEPT !.type = row.type, !.is_active = TRUE] : l \in existing},
                              "transfer_participant")
                  /\ UNCHANGED <<db, out, trace, tokens>>
  /\ UNCHANGED loc

\* INSERT INTO transfer_log_participants (transfer_log_id, participant_id)
PanelTransferParticipant(p) ==
  /\ pc[p] = "transfer_participant"
  /\ TxInsert(p, {[tbl |-> "transfer_log_participants",
                   transfer_log_id |-> NewId("transfer", p),
                   participant_id |-> loc[p].row.participant_id]},
              IF loc[p].rows = {} THEN "transfer_commit" ELSE "transfer_deactivate")
  /\ UNCHANGED loc

\* COMMIT, 201
PanelTransferCommit(p) ==
  /\ pc[p] = "transfer_commit"
  /\ db' = CommitDb(p)
  /\ tx' = [tx EXCEPT ![p] = NoTx]
  /\ Respond(p, 201, {})
  /\ trace' = [trace EXCEPT ![p].wrote = TRUE]
  /\ UNCHANGED <<loc, tokens>>

\* a statement after BEGIN fails for a reason of the datastore (connection lost, statement
\* timeout, deadlock victim): the error reaches the catch block
PanelTransferFault(p) ==
  /\ pc[p] \in {"transfer_select", "transfer_log", "transfer_deactivate", "transfer_upsert",
                "transfer_participant", "transfer_commit"}
  /\ Throw(p, Fault)
  /\ UNCHANGED loc

\* church 1 after an earlier transfer of its congregated participant to the second cell
\* and a promotion there: the link in the seeded cell is inactive
EarlierTransferId == Id("transfer", 1, 0)

TransferWorld ==
  (World \ {LinkRow(ParticipantIdOf(1, 1), CellIdOf(1), TenantIdOf(1), "congregated", TRUE)})
  \cup {LinkRow(ParticipantIdOf(1, 1), CellIdOf(1), TenantIdOf(1), "congregated", FALSE),
        LinkRow(ParticipantIdOf(1, 1), SecondCellId, TenantIdOf(1), "member", TRUE),
        [tbl |-> "transfer_logs", id |-> EarlierTransferId, tenant_id |-> TenantIdOf(1),
         source_cell_id |-> CellIdOf(1), destination_cell_id |-> SecondCellId],
        [tbl |-> "transfer_log_participants", transfer_log_id |-> EarlierTransferId,
         participant_id |-> ParticipantIdOf(1, 1)]}

InitTransfer == InitPanel(TransferProcs, TransferWorld)

NextTransfer ==
  \/ \E p \in TransferProcs :
       \/ PanelStart(p, Clients, {"transfers"},
                     TransferBodies({c \in TransferCells : c[1] # c[2]}))
       \/ PanelTransfersSameCell(p, Clients)
       \/ PanelLoad(p)
       \/ PanelLoadScopes(p)
       \/ PanelGate(p)
       \/ PanelVisible(p)
       \/ PanelTransfers(p)
       \/ PanelTransferSelect(p)
       \/ PanelTransferLog(p)
       \/ PanelTransferDeactivate(p)
       \/ PanelTransferUpsert(p)
       \/ PanelTransferParticipant(p)
       \/ PanelTransferCommit(p)
       \/ PanelTransferFault(p)
  \/ \E role \in OperatorRoles : OperatorSetRole(role)

SpecTransfer == InitTransfer /\ [][NextTransfer]_vars

(***************************************************************************)
(* The role of a membership row through normalizePanelRole, getRoleScope    *)
(* and assertPermission, for every stored role, module and action           *)
(***************************************************************************)
MaxGateCalls == 2         \* assertPermission calls on one context

GateProcs == {1}

\* a tenant_role value a later ALTER TYPE ... ADD VALUE brings, unknown to permissions.ts
UnknownRole == "tesoureiro"

StoredRoles == MemberRoles \cup {UnknownRole}

GateLocals == [stored |-> "", module |-> "", action |-> "", ctx |-> NoCtx]

GateTrace == [err |-> NoError, failedAt |-> "", calls |-> 0, allowed |-> FALSE, first |-> FALSE]

\* reading a property of undefined
TypeError == [kind |-> "TypeError", code |-> "", constraint |-> ""]

\* const role = normalizePanelRole(row.role)
GateNormalize(p) ==
  /\ pc[p] = "normalize"
  /\ loc' = [loc EXCEPT ![p].ctx.role = normalizePanelRole(loc[p].stored)]
  /\ pc' = [pc EXCEPT ![p] = "scope"]
  /\ UNCHANGED <<db, tx, out, trace, tokens>>

\* const scope = getRoleScope(role): rolePermissions[role] is undefined for an unknown role
GateScope(p) ==
  /\ pc[p] = "scope"
  /\ IF loc[p].ctx.role \in DOMAIN rolePermissions
       THEN /\ loc' = [loc EXCEPT ![p].ctx.scope = getRoleScope(loc[p].ctx.role)]
            /\ pc' = [pc EXCEPT ![p] = "gate"]
            /\ UNCHANGED <<db, tx, out, trace, tokens>>
       ELSE Throw(p, TypeError) /\ UNCHANGED loc

\* assertPermission(ctx, module, action), the first call and the later ones
GateAssert(p) ==
  /\ pc[p] \in {"gate", "passed"}
  /\ trace[p].calls < MaxGateCalls
  /\ LET allowed == assertPermission(loc[p].ctx, loc[p].module, loc[p].action)
         noted == [trace[p] EXCEPT !.calls = @ + 1, !.allowed = allowed,
                                   !.first = IF trace[p].calls = 0 THEN allowed ELSE @]
     IN IF allowed
          THEN /\ pc' = [pc EXCEPT ![p] = "passed"]
               /\ trace' = [trace EXCEPT ![p] = noted]
               /\ UNCHANGED <<db, tx, loc, out, tokens>>
          ELSE ThrowNoting(p, AppError(403), noted) /\ UNCHANGED loc

InitGate ==
  /\ db = {}
  /\ tx = [p \in GateProcs |-> NoTx]
  /\ pc = [p \in GateProcs |-> "normalize"]
  /\ loc \in [GateProcs -> {[GateLocals EXCEPT !.stored = stored, !.module = module,
                                               !.action = action] :
                              stored \in StoredRoles, module \in ModuleKeys,
                              action \in allActions}]
  /\ out = [p \in GateProcs |-> [status |-> 0, rows |-> {}]]
  /\ trace = [p \in GateProcs |-> GateTrace]
  /\ tokens = [p \in GateProcs |-> NoToken]

NextGate ==
  \E p \in GateProcs :
    \/ GateNormalize(p)
    \/ GateScope(p)
    \/ GateAssert(p)

SpecGate == InitGate /\ [][NextGate]_vars

(***************************************************************************)
(* The read routes of the panel for actors of every role, with and without  *)
(* scope rows, in a church with and without active cells                    *)
(***************************************************************************)
NumReads == 1             \* read requests of one run

ReadProcs == 1..NumReads

ReadRoutes ==
  {"search", "dashboard", "cells", "transfers_context", "leader_components",
   "consolidation_list", "network_gd"}

\* church 1 with its attendance and finance entries and one consolidation record; its
\* only member holds the given role, with or without scope rows; its cells are all
\* active or all closed
ReadWorld(role, scoped, active) ==
  LET t == TenantIdOf(1)
      u == UserIdOf(1)
      seeded == World \cup UNION {SeedRows(1, SeedPlan[k]) :
                  k \in {j \in 1..Len(SeedPlan) : SeedPlan[j].k \in {"attendance", "finance"}}}
      kept == {r \in seeded :
                 /\ ~(r.tbl = "tenant_members" /\ r.tenant_id = t)
                 /\ ~(r.tbl = "cells" /\ r.tenant_id = t)
                 /\ ~(r.tbl \in {"user_network_scopes", "user_cell_scopes"} /\ r.tenant_id = t
                        /\ ~scoped)}
  IN kept
       \cup {MemberRow(t, u, role)}
       \cup {[c EXCEPT !.is_active = active] : c \in {r \in seeded : r.tbl = "cells" /\ r.tenant_id = t}}
       \cup {[tbl |-> "consolidation_records", id |-> Id("consolidation", 1, 0), tenant_id |-> t,
              participant_id |-> ParticipantIdOf(1, 0)]}

\* active links of the church to the given cells
LinksOfCells(rows, tenantId, cellIds) ==
  {l \in Rows(rows, "participant_cell_links") :
     l.tenant_id = tenantId /\ l.cell_id \in cellIds /\ l.is_active}

NoKpis == [cells |-> 0, participants |-> 0, visitors |-> 0, finance |-> 0]

\* GET /panel/dashboard; every entry falls into the month asked for and counts 1
PanelDashboard(p) ==
  /\ pc[p] = "dashboard"
  /\ LET tenantId == loc[p].ctx.tenantId
         links == LinksOfCells(View(p), tenantId, Ids(loc[p].cells))
     IN IF loc[p].cells = {}
          THEN /\ out' = [out EXCEPT ![p] = [status |-> 200, rows |-> {}, kpis |-> NoKpis]]
               /\ UNCHANGED trace
          ELSE /\ out' = [out EXCEPT ![p] =
                    [status |-> 200,
                     rows |-> {a \in Rows(View(p), "attendance_entries") :
                                 a.tenant_id = tenantId /\ a.cell_id \in Ids(loc[p].cells)},
                     kpis |-> [cells |-> Cardinality(loc[p].cells),
                               participants |-> Cardinality({l.participant_id : l \in links}),
                               visitors |-> Cardinality({l.participant_id :
                                              l \in {v \in links : v.type = "visitor"}}),
                               finance |-> Cardinality({f \in Rows(View(p), "finance_entries") :
                                              f.tenant_id = tenantId})]]]
               /\ trace' = [trace EXCEPT ![p] = Touch(p)]
  /\ pc' = [pc EXCEPT ![p] = "done"]
  /\ UNCHANGED <<db, tx, loc, tokens>>

\* GET /panel/leader/components
PanelLeaderComponents(p) ==
  /\ pc[p] = "leader_components"
  /\ IF loc[p].cells = {}
       THEN Respond(p, 200, {}) /\ UNCHANGED trace
       ELSE /\ Respond(p, 200, loc[p].cells \cup
                 {l \in LinksOfCells(View(p), loc[p].ctx.tenantId, Ids(loc[p].cells)) :
                    l.participant_id \in Ids(Rows(View(p), "participants"))})
            /\ trace' = [trace EXCEPT ![p] = Touch(p)]
  /\ UNCHANGED <<db, tx, loc, tokens>>

\* GET /panel/consolidation without a name filter
PanelConsolidationList(p) ==
  /\ pc[p] = "consolidation_list"
  /\ IF loc[p].cells = {}
       THEN Respond(p, 200, {}) /\ UNCHANGED trace
       ELSE /\ Respond(p, 200,
                 {cr \in Rows(View(p), "consolidation_records") :
                    /\ cr.tenant_id = loc[p].ctx.tenantId
                    /\ cr.participant_id \in Ids(Rows(View(p), "participants"))
                    /\ \E l \in LinksOfCells(View(p), cr.tenant_id, Ids(loc[p].cells)) :
                         l.participant_id = cr.participant_id})
            /\ trace' = [trace EXCEPT ![p] = Touch(p)]
  /\ UNCHANGED <<db, tx, loc, tokens>>

\* (variant) the scoped query reads the user's scope rows again
PanelNetworkGdRereadingScopes(p) ==
  /\ pc[p] = "network_gd"
  /\ LET ctx == loc[p].ctx
     IN Respond(p, 200, {g \in Rows(View(p), "gd_controls") :
                           /\ g.tenant_id = ctx.tenantId
                           /\ ctx.scope = "network" =>
                                g.network_id \in NetworkScopeIds(View(p), ctx.tenantId, ctx.userId)})
  /\ trace' = [trace EXCEPT ![p] = Touch(p)]
  /\ UNCHANGED <<db, tx, loc, tokens>>

\* GET /panel/network/gd
PanelNetworkGd(p) ==
  /\ pc[p] = "network_gd"
  /\ LET ctx == loc[p].ctx
     IN Respond(p, 200, {g \in Rows(View(p), "gd_controls") :
                           /\ g.tenant_id = ctx.tenantId
                           /\ ctx.scope = "network" => g.network_id \in ctx.networkIds})
  /\ trace' = [trace EXCEPT ![p] = Touch(p)]
  /\ UNCHANGED <<db, tx, loc, tokens>>

InitReads ==
  \E role \in PanelRoles, scoped \in BOOLEAN, active \in BOOLEAN :
    InitPanel(ReadProcs, ReadWorld(role, scoped, active))

NextReads ==
  \E p \in ReadProcs :
    \/ PanelStart(p, {1}, ReadRoutes, {NoBody})
    \/ PanelSearchShort(p, {1})
    \/ PanelLoad(p)
    \/ PanelLoadScopes(p)
    \/ PanelGate(p)
    \/ PanelVisible(p)
    \/ PanelSearch(p)
    \/ PanelDashboard(p)
    \/ PanelCells(p)
    \/ PanelTransfersContext(p)
    \/ PanelLeaderComponents(p)
    \/ PanelConsolidationList(p)
    \/ PanelNetworkGd(p)

SpecReads == InitReads /\ [][NextReads]_vars

(***************************************************************************)
(* Scope assignments that change while requests run: SpecScope              *)
(***************************************************************************)
NumScopeRequests == 1     \* connections that serve the scoped user's requests in turn
ScopeProcs == 1..NumScopeRequests

ScopeRoutes == {"network_gd", "cells"}

\* church 1 with two networks, a cell and a GD meeting in each; its member holds a
\* network- or cell-scoped role
ScopeWorld(role) ==
  {r \in World : ~(r.tbl = "tenant_members" /\ r.tenant_id = TenantIdOf(1))}
    \cup {MemberRow(TenantIdOf(1), UserIdOf(1), role),
          [tbl |-> "gd_controls", id |-> Id("gd", 1, 1), tenant_id |-> TenantIdOf(1),
           network_id |-> SecondNetworkId, cell_id |-> SecondCellId]}

\* the scope-assignment rows the member of church 1 can have
ScopeAssignments ==
  {[tbl |-> "user_network_scopes", tenant_id |-> TenantIdOf(1), user_id |-> UserIdOf(1),
    network_id |-> n] : n \in {NetworkIdOf(1), SecondNetworkId}}
  \cup {[tbl |-> "user_cell_scopes", tenant_id |-> TenantIdOf(1), user_id |-> UserIdOf(1),
         cell_id |-> c] : c \in {CellIdOf(1), SecondCellId}}

\* INSERT INTO user_network_scopes / user_cell_scopes, committed on its own
OperatorAssignScope(row) == row \notin db /\ OperatorUpdate({}, {row})

\* DELETE FROM user_network_scopes / user_cell_scopes, committed on its own
OperatorRevokeScope(row) == row \in db /\ OperatorUpdate({row}, {})

InitScope == \E role \in {"pastor_rede", "lider_celula"} : InitPanel(ScopeProcs, ScopeWorld(role))

NextScope ==
  \/ \E p \in ScopeProcs :
       \/ NextRequest(p)
       \/ PanelStart(p, {1}, ScopeRoutes, {NoBody})
       \/ PanelLoad(p)
       \/ PanelLoadScopes(p)
       \/ PanelGate(p)
       \/ PanelVisible(p)
       \/ PanelCells(p)
       \/ PanelNetworkGd(p)
  \/ \E row \in ScopeAssignments : OperatorAssignScope(row)
  \/ \E row \in ScopeAssignments : OperatorRevokeScope(row)

SpecScope == InitScope /\ [][NextScope]_vars

(***************************************************************************)
(* Registration followed by a login of the registrant: SpecRoundTrip        *)
(***************************************************************************)
\* what POST /auth/login answers for the e-mail, the password being that of the user
LoginResponse(rows, email) ==
  LET found == LoginRows(rows, email)
  IN IF found = {}
       THEN [status |-> 401, userId |-> NULL, tenantId |-> NULL, role |-> "", email |-> email]
       ELSE LET row == FirstMembership(found)
                token == signAccessToken(row.user_id, row.tenant_id, normalizeRole(row.role))
            IN [status |-> 200, userId |-> token.userId, tenantId |-> token.tenantId,
                role |-> token.role, email |-> email]

\* POST /auth/login of the client of registration p, once its registration is answered,
\* with the e-mail of its registration in any spelling and the same password
RegLogin(p) ==
  /\ pc[p] = "done"
  /\ \E email \in Emails :
       /\ Lower(email) = loc[p].email
       /\ out' = [out EXCEPT ![p] = LoginResponse(db, email)]
  /\ pc' = [pc EXCEPT ![p] = "logged"]
  /\ UNCHANGED <<db, tx, loc, trace, tokens>>

NextRoundTrip ==
  \/ NextReg
  \/ \E p \in RegProcs : RegLogin(p)

SpecRoundTrip == InitReg /\ [][NextRoundTrip]_vars

(***************************************************************************)
(* Two transfers of one participant out of one cell: SpecTransferRace       *)
(***************************************************************************)
NumRaceTransfers == 2     \* concurrent transfer requests of one run

RaceProcs == 1..NumRaceTransfers

\* a third cell of church 1, in its second network
ThirdCellId == Id("cell", 1, 2)

RaceWorld ==
  World \cup {[tbl |-> "cells", id |-> ThirdCellId, tenant_id |-> TenantIdOf(1),
               network_id |-> SecondNetworkId, is_active |-> TRUE]}

\* the visitor of church 1 leaves the seeded cell for the second or for the third cell
RaceBodies ==
  {[NoBody EXCEPT !.sourceCellId = CellIdOf(1), !.destinationCellId = dest,
                  !.participantIds = <<ParticipantIdOf(1, 0)>>] :
     dest \in {SecondCellId, ThirdCellId}}

InitTransferRace == InitPanel(RaceProcs, RaceWorld)

NextTransferRace ==
  \E p \in RaceProcs :
    \/ PanelStart(p, {1}, {"transfers"}, RaceBodies)
    \/ PanelLoad(p)
    \/ PanelGate(p)
    \/ PanelVisible(p)
    \/ PanelTransfers(p)
    \/ PanelTransferSelect(p)
    \/ PanelTransferLog(p)
    \/ PanelTransferDeactivate(p)
    \/ PanelTransferUpsert(p)
    \/ PanelTransferParticipant(p)
    \/ PanelTransferCommit(p)
    \/ PanelTransferFault(p)

SpecTransferRace == InitTransferRace /\ [][NextTransferRace]_vars

(***************************************************************************)
(* POST /panel/leader/components/:participantId/promote: SpecPromote        *)
(***************************************************************************)
NumPromotes == 3          \* promotion requests of one run

PromoteProcs == 1..NumPromotes

\* the visitor or the member of church 1, in the seeded cell or in the second cell
PromoteBodies ==
  {[NoBody EXCEPT !.participantId = x, !.cellId = c] :
     x \in {ParticipantIdOf(1, 0), ParticipantIdOf(1, 2)}, c \in {CellIdOf(1), SecondCellId}}

\* fromType === "visitor" ? "congregated" : fromType === "congregated" ? "member" : "member"
PromotedType(fromType) == IF fromType = "visitor" THEN "congregated" ELSE "member"

\* the scope check, the SELECT of the active link, the answer for a member, or BEGIN
PanelPromote(p) ==
  /\ pc[p] = "promote"
  /\ LET body == loc[p].body
         current == {l \in Rows(View(p), "participant_cell_links") :
                       /\ l.participant_id = body.participantId
                       /\ l.cell_id = body.cellId
                       /\ l.tenant_id = loc[p].ctx.tenantId
                       /\ l.is_active}
     IN IF body.cellId \notin Ids(loc[p].cells)
          THEN Throw(p, AppError(403)) /\ UNCHANGED loc
        ELSE IF current = {}
          THEN ThrowNoting(p, AppError(404), Touch(p)) /\ UNCHANGED loc
        ELSE LET row == CHOOSE l \in current : TRUE
             IN /\ loc' = [loc EXCEPT ![p].row = row]
                /\ trace' = [trace EXCEPT ![p] = Touch(p)]
                /\ IF PromotedType(row.type) = row.type
                     THEN Respond(p, 200, {}) /\ UNCHANGED tx
                     ELSE /\ tx' = [tx EXCEPT ![p] = BeginTx]
                          /\ pc' = [pc EXCEPT ![p] = "promote_update"]
                          /\ UNCHANGED out
                /\ UNCHANGED <<db, tokens>>

\* UPDATE participant_cell_links SET type = $1 WHERE participant_id, cell_id, tenant_id
PanelPromoteUpdate(p) ==
  /\ pc[p] = "promote_update"
  /\ LET body == loc[p].body
         target == {l \in Rows(View(p), "participant_cell_links") :
                      /\ l.participant_id = body.participantId
                      /\ l.cell_id = body.cellId
                      /\ l.tenant_id = loc[p].ctx.tenantId}
     IN /\ ~Locked(p, target)
        /\ TxUpdate(p, target, {[l EXCEPT !.type = PromotedType(loc[p].row.type)] : l \in target},
                    "promote_history")
  /\ UNCHANGED <<db, loc, out, trace, tokens>>

\* INSERT INTO participant_status_history (..., from_type, to_type, ...)
PanelPromoteHistory(p) ==
  /\ pc[p] = "promote_history"
  /\ TxInsert(p, {[tbl |-> "participant_status_history", id |-> NewId("history", p),
                   tenant_id |-> loc[p].ctx.tenantId,
                   participant_id |-> loc[p].body.participantId,
                   from_type |-> loc[p].row.type,
                   to_type |-> PromotedType(loc[p].row.type)]},
              "promote_commit")
  /\ UNCHANGED loc

\* COMMIT, 200
PanelPromoteCommit(p) ==
  /\ pc[p] = "promote_commit"
  /\ db' = CommitDb(p)
  /\ tx' = [tx EXCEPT ![p] = NoTx]
  /\ Respond(p, 200, {})
  /\ trace' = [trace EXCEPT ![p].wrote = TRUE]
  /\ UNCHANGED <<loc, tokens>>

\* a statement after BEGIN fails for a reason of the datastore: the catch block
PanelPromoteFault(p) ==
  /\ pc[p] \in {"promote_update", "promote_history", "promote_commit"}
  /\ Throw(p, Fault)
  /\ UNCHANGED loc

InitPromote == InitPanel(PromoteProcs, World)

NextPromote ==
  \E p \in PromoteProcs :
    \/ PanelStart(p, {1}, {"promote"}, PromoteBodies)
    \/ PanelLoad(p)
    \/ PanelGate(p)
    \/ PanelVisible(p)
    \/ PanelPromote(p)
    \/ PanelPromoteUpdate(p)
    \/ PanelPromoteHistory(p)
    \/ PanelPromoteCommit(p)
    \/ PanelPromoteFault(p)

SpecPromote == InitPromote /\ [][NextPromote]_vars

(***************************************************************************)
(* The consolidation list and one consolidation record: SpecConsolidation   *)
(***************************************************************************)
NumRecordReads == 1       \* consolidation requests of one run

RecordProcs == 1..NumRecordReads

\* :id of the detail route: the record of church 1, or a uuid no record carries
RecordBodies == {[NoBody EXCEPT !.id = id] : id \in {Id("consolidation", 1, 0), Id("consolidation", 9, 9)}}

InitConsolidation ==
  \E role \in PanelRoles, scoped \in BOOLEAN : InitPanel(RecordProcs, ReadWorld(role, scoped, TRUE))

NextConsolidation ==
  \E p \in RecordProcs :
    \/ PanelStart(p, {1}, {"consolidation_list"}, {NoBody})
    \/ PanelStart(p, {1}, {"consolidation_get"}, RecordBodies)
    \/ PanelLoad(p)
    \/ PanelLoadScopes(p)
    \/ PanelGate(p)
    \/ PanelVisible(p)
    \/ PanelConsolidationList(p)
    \/ PanelConsolidationGet(p)

SpecConsolidation == InitConsolidation /\ [][NextConsolidation]_vars

(***************************************************************************)
(* DELETE /auth/me of a user who is a member of two churches: SpecDelete    *)
(***************************************************************************)
NumDeletes == 3           \* account deletion requests of one run

DeleteProcs == 1..NumDeletes

\* the user of church 1 is a member of church 2 as well; no route adds a membership to a
\* user, the operator of the installation inserts the row
DeleteWorld == World \cup {MemberRow(TenantIdOf(2), UserIdOf(1), "secretaria")}

\* the user holds one session for each membership: login signs the oldest membership
\* whose church is active, so the session of church 2 dates from a time church 1 was
\* closed
InitDelete ==
  /\ db = DeleteWorld
  /\ tx = [p \in DeleteProcs |-> NoTx]
  /\ pc = [p \in DeleteProcs |-> "idle"]
  /\ loc = [p \in DeleteProcs |-> PanelLocals]
  /\ out = [p \in DeleteProcs |-> [status |-> 0, rows |-> {}]]
  /\ trace = [p \in DeleteProcs |-> PanelTrace]
  /\ tokens = [c \in Clients |-> signAccessToken(UserIdOf(1), TenantIdOf(c),
                                                 IF c = 1 THEN "admin_geral" ELSE "secretaria")]

NextDelete ==
  \E p \in DeleteProcs :
    \/ AuthDeleteStart(p, Clients)
    \/ AuthDeleteMember(p)
    \/ AuthDeleteCount(p)
    \/ AuthDeleteUser(p)
    \/ AuthDeleteCommit(p)

SpecDelete == InitDelete /\ [][NextDelete]_vars

(***************************************************************************)
(* The migration runner: SpecMigrate                                        *)
(***************************************************************************)
NumRuns == 2              \* runs of the migration script, possibly at the same time
NumMigrationFiles == 2    \* .sql files the migrations directory can hold

RunProcs == 1..NumRuns

FileVersions == 1..NumMigrationFiles

\* the texts a migration file can have: as written, and edited later
FileContents == {"a", "b"}

\* createHash("sha256").update(content).digest("hex"): different texts, different digests
getChecksum(content) == <<"sha256", content>>

\* the states of db/migrations: some of the files, each with one of its texts
Directories == UNION {[present -> FileContents] : present \in SUBSET FileVersions}

RECURSIVE SortedVersions(_)
SortedVersions(versions) ==
  IF versions = {} THEN <<>>
  ELSE LET first == CHOOSE v \in versions : \A o \in versions : v <= o
       IN <<first>> \o SortedVersions(versions \ {first})

\* the .sql files in the order of their names, each with its text and checksum
loadMigrations(dir) ==
  LET order == SortedVersions(DOMAIN dir)
  IN [i \in 1..Len(order) |->
        [version |-> order[i], sql |-> dir[order[i]], checksum |-> getChecksum(dir[order[i]])]]

RunLocals == [migrations |-> <<>>, applied |-> {}, idx |-> 1]

RunTrace == [err |-> NoError, failedAt |-> ""]

MismatchError == [kind |-> "Error", code |-> "checksum mismatch", constraint |-> ""]

\* (variant) the lookup finds no applied version
AppliedChecksumOfNone(applied, version) == {}

\* applied.get(migration.version)
AppliedChecksum(applied, version) == {r.checksum : r \in {a \in applied : a.version = version}}

\* the run rejects: ROLLBACK where a transaction is open, pool.end(), exit code 1
RunFail(p, error) ==
  /\ db' = RollbackDb(p)
  /\ tx' = [tx EXCEPT ![p] = NoTx]
  /\ pc' = [pc EXCEPT ![p] = "done"]
  /\ out' = [out EXCEPT ![p] = [status |-> 1]]
  /\ trace' = [trace EXCEPT ![p] = [err |-> error, failedAt |-> pc[p]]]
  /\ UNCHANGED <<loc, tokens>>

\* ensureMigrationsTable, loadMigrations, SELECT version, checksum FROM schema_migrations
RunStart(p) ==
  /\ pc[p] = "idle"
  /\ \E dir \in Directories :
       loc' = [loc EXCEPT ![p] = [migrations |-> loadMigrations(dir),
                                  applied |-> Rows(db, "schema_migrations"), idx |-> 1]]
  /\ pc' = [pc EXCEPT ![p] = "run_next"]
  /\ UNCHANGED <<db, tx, out, trace, tokens>>

\* one turn of the loop up to BEGIN: skip, checksum mismatch, or a transaction for the
\* migration; after the last file the run resolves
RunNext(p) ==
  /\ pc[p] = "run_next"
  /\ IF loc[p].idx > Len(loc[p].migrations)
       THEN /\ pc' = [pc EXCEPT ![p] = "done"]
            /\ UNCHANGED <<db, tx, loc, out, trace, tokens>>
       ELSE LET migration == loc[p].migrations[loc[p].idx]
                appliedChecksum == AppliedChecksum(loc[p].applied, migration.version)
            IN IF appliedChecksum # {}
                 THEN IF appliedChecksum # {migration.checksum}
                        THEN RunFail(p, MismatchError)
                        ELSE /\ loc' = [loc EXCEPT ![p].idx = @ + 1]
                             /\ UNCHANGED <<db, tx, pc, out, trace, tokens>>
                 ELSE /\ tx' = [tx EXCEPT ![p] = BeginTx]
                      /\ pc' = [pc EXCEPT ![p] = "run_sql"]
                      /\ UNCHANGED <<db, loc, out, trace, tokens>>

\* client.query(migration.sql): what the file creates or changes, written by this run
RunSql(p) ==
  /\ pc[p] = "run_sql"
  /\ LET migration == loc[p].migrations[loc[p].idx]
     IN TxInsert(p, {[tbl |-> "schema_objects", version |-> migration.version,
                      sql |-> migration.sql, run |-> p]}, "run_record")
  /\ UNCHANGED loc

\* INSERT INTO schema_migrations (version, checksum); version is the primary key
RunRecord(p) ==
  /\ pc[p] = "run_record"
  /\ LET migration == loc[p].migrations[loc[p].idx]
         sameKey(r) == r.tbl = "schema_migrations" /\ r.version = migration.version
     IN IF \E r \in View(p) : sameKey(r)
          THEN RunFail(p, PgError("23505", "schema_migrations_pkey"))
          ELSE /\ ~\E r \in Uncommitted(p) : sameKey(r)          \* else the INSERT waits
               /\ TxInsert(p, {[tbl |-> "schema_migrations", version |-> migration.version,
                                checksum |-> migration.checksum]}, "run_commit")
               /\ UNCHANGED loc

\* COMMIT; the loop goes on with the next file
RunCommit(p) ==
  /\ pc[p] = "run_commit"
  /\ db' = CommitDb(p)
  /\ tx' = [tx EXCEPT ![p] = NoTx]
  /\ pc' = [pc EXCEPT ![p] = "run_next"]
  /\ loc' = [loc EXCEPT ![p].idx = @ + 1]
  /\ UNCHANGED <<out, trace, tokens>>

\* a statement of the transaction fails (an error of the migration's SQL, the connection
\* lost): the catch block
RunFault(p) ==
  /\ pc[p] \in {"run_sql", "run_record", "run_commit"}
  /\ RunFail(p, Fault)

InitMigrate ==
  /\ db = {}
  /\ tx = [p \in RunProcs |-> NoTx]
  /\ pc = [p \in RunProcs |-> "idle"]
  /\ loc = [p \in RunProcs |-> RunLocals]
  /\ out = [p \in RunProcs |-> [status |-> 0]]
  /\ trace = [p \in RunProcs |-> RunTrace]
  /\ tokens = [p \in RunProcs |-> NoToken]

NextMigrate ==
  \E p \in RunProcs :
    \/ RunStart(p)
    \/ RunNext(p)
    \/ RunSql(p)
    \/ RunRecord(p)
    \/ RunCommit(p)
    \/ RunFault(p)

SpecMigrate == InitMigrate /\ [][NextMigrate]_vars

(***************************************************************************)
(* Properties of the registration path                                      *)
(***************************************************************************)
RegDone(p) == pc[p] = "done"

\* the rows of the committed store that belong to registration p
RegistrationRows(p) ==
  {r \in db : \/ r.tbl = "tenants" /\ r.id = TenantIdOf(p)
              \/ r.tbl = "users" /\ r.id = UserIdOf(p)
              \/ r.tbl \notin {"tenants", "users"} /\ r.tenant_id = TenantIdOf(p)}

RegCount(p, t) == Cardinality(Rows(RegistrationRows(p), t))

\* C1: a registration whose first slug candidate was rejected by the slug's uniqueness
\* constraint (and that met no other failure) succeeds, and its tenant row carries the
\* second candidate, base-2.
C1_SlugCollisionRetrySucceeds ==
  \A p \in RegProcs :
    (/\ RegDone(p)
     /\ trace[p].slugRejects >= 1
     /\ trace[p].err.kind # "Error"
     /\ trace[p].err.constraint # "users_email_unique_active")
    => /\ out[p].status = 201
       /\ \E t \in Rows(db, "tenants") :
            /\ t.id = TenantIdOf(p)
            /\ t.slug = buildSlugCandidate(slugifyChurchName(loc[p].church), 1)

\* C2: a registration that has not answered 201 has no row in the committed store (no
\* tenant, user, membership or seed row); one that answered 201 has all of them.
C2_RegistrationAllOrNothing ==
  \A p \in RegProcs :
    /\ out[p].status # 201 => RegistrationRows(p) = {}
    /\ out[p].status = 201 =>
         /\ RegCount(p, "tenants") = 1
         /\ RegCount(p, "users") = 1
         /\ RegCount(p, "tenant_members") = 1
         /\ RegCount(p, "church_networks") = 1
         /\ RegCount(p, "cells") = 1
         /\ RegCount(p, "user_network_scopes") = 1
         /\ RegCount(p, "user_cell_scopes") = 1
         /\ RegCount(p, "participants") = 3
         /\ RegCount(p, "participant_cell_links") = 3
         /\ RegCount(p, "participant_status_history") = 3
         /\ RegCount(p, "attendance_entries") = 4
         /\ RegCount(p, "finance_entries") = 2
         /\ RegCount(p, "gd_controls") = 1

\* a registration failed in the middle of the seed data while another one succeeded
C2_Witness ==
  \E p, q \in RegProcs :
    /\ RegDone(p) /\ out[p].status = 500 /\ trace[p].failedAt = "seed"
    /\ RegDone(q) /\ out[q].status = 201

\* C4: no two tenant rows, committed or written by an open transaction, have slugs that
\* are equal ignoring case; in particular the tenant of a successful registration shares
\* its slug with no other committed tenant.
C4_TenantSlugsUnique ==
  LET tenants == Rows(db \cup UNION {tx[q].ins : q \in RegProcs}, "tenants")
  IN \A t1, t2 \in tenants : t1.id # t2.id => Lower(t1.slug) # Lower(t2.slug)

\* two registrations with the same base ran; one holds the slug, the other was rejected
C4_Witness ==
  \E p, q \in RegProcs :
    /\ p # q
    /\ slugifyChurchName(loc[p].church) = slugifyChurchName(loc[q].church)
    /\ out[p].status = 201
    /\ trace[q].slugRejects >= 1
    /\ Cardinality(Rows(db, "tenants")) = 1

\* C9: a registration that is refused because its email is held by a non-deleted user is
\* answered 409 (Conflict), whether the duplicate is found by the handler's SELECT or by
\* the unique index on the INSERT.
C9_DuplicateEmailIsConflict ==
  \A p \in RegProcs :
    (/\ RegDone(p)
     /\ \/ trace[p].err.kind = "AppError"
        \/ trace[p].err.constraint = "users_email_unique_active")
    => out[p].status = 409 /\ RegistrationRows(p) = {}

(***************************************************************************)
(* Properties of the sessions                                               *)
(***************************************************************************)
SessionOk(p) == trace[p].seen.user /\ trace[p].seen.tenant /\ trace[p].seen.member

\* C7: a panel request that arrives when the user is inactive or soft-deleted, the church
\* inactive or the membership inactive is answered 401, returns no rows and writes nothing
C7_InvalidSessionIsRefused ==
  \A p \in DOMAIN pc :
    (pc[p] = "done" /\ loc[p].route \in DOMAIN PanelRouteTable /\ ~trace[p].begun)
      => (out[p] = [status |-> 401, rows |-> {}] /\ ~trace[p].wrote)

\* what holds of the requests that reach loadAccessContext: with one of the three inactive
\* the request ends there with 401, no rows and no write; with all three active the
\* context is built for the token's user and church
SessionCheckedAtLoad ==
  \A p \in DOMAIN pc :
    loc[p].route \in DOMAIN PanelRouteTable =>
      /\ pc[p] \notin {"idle", "load", "done"} => trace[p].seen.loaded
      /\ (trace[p].seen.loaded /\ ~SessionOk(p)) =>
            /\ pc[p] = "done"
            /\ trace[p].failedAt = "load"
            /\ out[p] = [status |-> 401, rows |-> {}]
            /\ ~trace[p].wrote
            /\ loc[p].ctx = NoCtx
      /\ (trace[p].seen.loaded /\ SessionOk(p)) =>
            /\ trace[p].failedAt # "load"
            /\ loc[p].ctx.userId = loc[p].auth.userId
            /\ loc[p].ctx.tenantId = loc[p].auth.tenantId

\* C8: the role that builds the context, its scope and the gate's answer come from the
\* membership row as stored when the context was loaded, never from the token's role
C8_RoleComesFromMembershipRow ==
  \A p \in DOMAIN pc :
    (loc[p].route \in DOMAIN PanelRouteTable /\ loc[p].ctx # NoCtx) =>
      LET stored == normalizePanelRole(trace[p].seen.role)
          gate == PanelRouteTable[loc[p].route].gate
      IN /\ loc[p].ctx.role = stored
         /\ loc[p].ctx.scope = getRoleScope(stored)
         /\ trace[p].gate => canAccess(stored, gate.module, gate.action)
         /\ trace[p].failedAt = "gate" =>
               (out[p].status = 403 /\ ~canAccess(stored, gate.module, gate.action))

\* a token issued for admin_geral is refused by the gate after the stored role became
\* pastor_rede
C8_Witness ==
  \E p \in DOMAIN pc :
    /\ pc[p] = "done"
    /\ loc[p].route = "president_gd_get"
    /\ loc[p].auth.role = "admin_geral"
    /\ trace[p].seen.role = "pastor_rede"
    /\ trace[p].failedAt = "gate"
    /\ out[p].status = 403

(***************************************************************************)
(* Properties of the data routes                                            *)
(***************************************************************************)
\* C5: in every panel operation the permission gate has passed before the first statement
\* that reads or writes church data runs
C5_GateBeforeData ==
  \A p \in DOMAIN pc : ~trace[p].ungated

\* the cells and networks the context of request p may see, from the committed rows
VisibleCellIdsOf(p) == Ids(getVisibleCells(db, loc[p].ctx))

VisibleNetworkIdsOf(p) ==
  {n.id : n \in {r \in Rows(db, "church_networks") :
                   /\ r.tenant_id = loc[p].ctx.tenantId
                   /\ CASE loc[p].ctx.scope = "network" -> r.id \in loc[p].ctx.networkIds
                        [] loc[p].ctx.scope = "cell" ->
                             \E c \in getVisibleCells(db, loc[p].ctx) : c.network_id = r.id
                        [] OTHER -> TRUE}}

SuppliedCellIds(p) ==
  {loc[p].body.cellId, loc[p].body.sourceCellId, loc[p].body.destinationCellId} \ {NULL}

SuppliedOutsideScope(p) ==
  \/ ~(SuppliedCellIds(p) \subseteq VisibleCellIdsOf(p))
  \/ loc[p].body.networkId # NULL /\ loc[p].body.networkId \notin VisibleNetworkIdsOf(p)

\* C6: a request that passed the gate and supplies a cell or network id outside the
\* caller's visible set is answered 403 and writes nothing
C6_ScopeCheckOnSuppliedIds ==
  \A p \in DOMAIN pc :
    (/\ pc[p] = "done"
     /\ loc[p].route \in {"transfers_context", "transfers", "president_gd_post"}
     /\ trace[p].gate
     /\ SuppliedOutsideScope(p))
      => (out[p].status = 403 /\ ~trace[p].wrote)

\* C10: every row a panel operation returns belongs to the caller's church, and every
\* cell, network or participant id it stored names a row of the church of the storing row
C10_TenantIsolation ==
  /\ \A p \in DOMAIN pc :
       \A r \in out[p].rows : r.tenant_id = loc[p].auth.tenantId
  /\ \A g \in Rows(db, "gd_controls") :
       /\ \A c \in Rows(db, "cells") : c.id = g.cell_id => c.tenant_id = g.tenant_id
       /\ \A n \in Rows(db, "church_networks") : n.id = g.network_id => n.tenant_id = g.tenant_id
  /\ \A cr \in Rows(db, "consolidation_records") :
       \A pt \in Rows(db, "participants") :
         pt.id = cr.participant_id => pt.tenant_id = cr.tenant_id

(***************************************************************************)
(* Properties of the transfers                                              *)
(***************************************************************************)
TransferData(rows) ==
  {r \in rows : r.tbl \in {"participant_cell_links", "transfer_logs", "transfer_log_participants"}}

\* the whole effect of the transfer of request p, read from the rows
TransferEffects(p, rows) ==
  LET body == loc[p].body
      logId == NewId("transfer", p)
  IN /\ \E log \in Rows(rows, "transfer_logs") :
          /\ log.id = logId
          /\ log.tenant_id = loc[p].ctx.tenantId
          /\ log.source_cell_id = body.sourceCellId
          /\ log.destination_cell_id = body.destinationCellId
     /\ loc[p].work # {}
     /\ {r.participant_id : r \in loc[p].work} = Range(body.participantIds)
     /\ \A r \in loc[p].work :
          /\ ~\E l \in Rows(rows, "participant_cell_links") :
                l.participant_id = r.participant_id /\ l.cell_id = body.sourceCellId
                /\ l.is_active
          /\ \E l \in Rows(rows, "participant_cell_links") :
                /\ l.participant_id = r.participant_id
                /\ l.cell_id = body.destinationCellId
                /\ l.is_active
                /\ l.type = r.type
                /\ l.tenant_id = loc[p].ctx.tenantId
          /\ \E t \in Rows(rows, "transfer_log_participants") :
                t.transfer_log_id = logId /\ t.participant_id = r.participant_id

\* C3: the links, transfer logs and their participant rows change only in the step that
\* commits a transfer answered 201, and that step leaves the whole effect for every
\* requested participant: source link inactive, destination link active with the source
\* type, the log row and its participant rows; a transfer that fails leaves them as they were
C3_TransferAllOrNothing ==
  [][TransferData(db') # TransferData(db) =>
       \E p \in DOMAIN pc :
         /\ pc[p] = "transfer_commit"
         /\ pc'[p] = "done"
         /\ out'[p].status = 201
         /\ TransferEffects(p, db')]_vars

\* a transfer failed after it had deactivated a source link and written its log row, and
\* the committed rows are those of the start
C3_Witness ==
  \E p \in DOMAIN pc :
    /\ pc[p] = "done"
    /\ loc[p].route = "transfers"
    /\ trace[p].failedAt \in {"transfer_upsert", "transfer_participant", "transfer_commit"}
    /\ out[p].status = 500
    /\ Cardinality(loc[p].work) = 2
    /\ TransferData(db) = TransferData(TransferWorld)

(***************************************************************************)
(* Properties of the slug allocator                                         *)
(***************************************************************************)
SlugChars == LowerLetters \cup Digits \cup {"-"}

\* ^[a-z0-9-]{1,60}$
ValidSlug(s) == Len(s) \in 1..60 /\ \A i \in 1..Len(s) : s[i] \in SlugChars

NoAlnum(name) == \A i \in 1..Len(name) : name[i] \notin {"x", "a", "C,", "9"}

\* C11: every slug the allocator inserts (each attempt of the loop and the fallback) is
\* non-empty, at most 60 characters long and made of a-z, 0-9 and "-" only; a church name
\* without any alphanumeric character is first tried as "igreja".
C11_InsertedSlugsAreValid ==
  \A p \in DOMAIN trace :
    trace[p].inserts > 0 =>
      /\ ValidSlug(trace[p].candidate)
      /\ (trace[p].inserts = 1 /\ NoAlnum(loc[p].church))
           => trace[p].candidate = <<"i", "g", "r", "e", "j", "a">>

\* a church name of more than 60 characters is being tried with a three-digit suffix
C11_Witness ==
  \E p \in DOMAIN trace :
    /\ trace[p].inserts > 100
    /\ trace[p].inserts <= 200
    /\ Len(loc[p].church) > 60
    /\ Len(trace[p].candidate) = 60

\* C12: the allocator probes the candidates one after the other in the order attempt 0,
\* 1, 2, ...: an insert is issued only when every earlier insert was rejected with a
\* uniqueness violation on the slug; after an accepted insert or any other failure no
\* further insert is issued, and the other failure reaches the caller.
C12_SequentialProbing ==
  [][\A p \in DOMAIN trace :
       trace'[p].inserts # trace[p].inserts =>
         /\ trace'[p].inserts = trace[p].inserts + 1
         /\ trace[p].rejects = trace[p].inserts
         /\ trace[p].inserts > 0 =>
              /\ trace[p].last = "rejected"
              /\ trace[p].err = PgError("23505", "tenants_slug_unique")
         /\ trace[p].inserts < 200 =>
              trace'[p].candidate =
                buildSlugCandidate(slugifyChurchName(loc[p].church), trace[p].inserts)
         /\ trace'[p].last = "accepted" => pc'[p] = "returned"
         /\ trace'[p].last = "failed" =>
              /\ pc'[p] = "done"
              /\ out'[p].status = 500
              /\ trace'[p].err \in {Fault, PgError("25P02", ""),
                                    PgError("23505", "tenants_slug_unique")}
              /\ trace'[p].err = PgError("23505", "tenants_slug_unique")
                   => trace'[p].inserts = 201]_vars

\* the third candidate was accepted after the first two were rejected
C12_Witness ==
  \E p \in DOMAIN trace :
    /\ trace[p].inserts = 3
    /\ trace[p].rejects = 2
    /\ trace[p].last = "accepted"
    /\ pc[p] = "returned"

\* C13: the allocator never issues more than 201 inserts; the 201st is issued only after
\* 200 rejections for a taken slug, carries the slug base[0..50) "-" time cut to 60
\* characters, and ends the call: the tenant is created with that slug, or the error of
\* the insert reaches the caller.
C13_FallbackOnceThenStop ==
  \A p \in DOMAIN trace :
    /\ trace[p].inserts <= 201
    /\ trace[p].inserts = 201 =>
         /\ trace[p].rejects = 200
         /\ \E stamp \in TimeStamps :
              trace[p].candidate =
                Slice0(Slice0(slugifyChurchName(loc[p].church), 50) \o <<"-">> \o stamp, 60)
         /\ \/ /\ trace[p].last = "accepted"
               /\ pc[p] = "returned"
               /\ \E t \in Rows(View(p), "tenants") :
                    t.id = TenantIdOf(p) /\ t.slug = trace[p].candidate
            \/ /\ trace[p].last = "failed"
               /\ pc[p] = "done"
               /\ out[p].status = 500
               /\ ~\E t \in Rows(View(p), "tenants") : t.id = TenantIdOf(p)

\* 200 candidates were rejected and the tenant was created with the fallback slug
C13_Witness ==
  \E p \in DOMAIN trace :
    /\ trace[p].inserts = 201
    /\ trace[p].rejects = 200
    /\ trace[p].last = "accepted"
    /\ Len(loc[p].church) > 60

(***************************************************************************)
(* Properties of roles and permissions                                      *)
(***************************************************************************)
ReadSet == {"view", "export", "print"}
EditSet == {"view", "create", "edit", "export", "print"}

\* the policy table of the specification, role by role
PolicyScope(role) ==
  CASE role = "pastor_rede" -> "network"
    [] role = "lider_celula" -> "cell"
    [] OTHER -> "all"

PolicyActions(role, module) ==
  CASE role = "admin_geral" -> {"view", "create", "edit", "delete", "export", "print"}
    [] role = "pastor_presidente" ->
         IF module \in {"cells_admin", "consolidation", "email", "pastor_presidente"}
           THEN EditSet ELSE ReadSet
    [] role = "pastor_rede" ->
         IF module = "cells_admin" THEN {"view"}
         ELSE IF module \in {"consolidation", "email", "pastor_rede"} THEN EditSet
         ELSE IF module = "pastor_presidente" THEN {}
         ELSE ReadSet
    [] role = "lider_celula" ->
         IF module = "cells_admin" THEN {"view"}
         ELSE IF module \in {"discipleship", "consolidation", "email", "lider_celula"} THEN EditSet
         ELSE IF module \in {"pastor_presidente", "pastor_rede"} THEN {}
         ELSE ReadSet
    [] role = "secretaria" ->
         IF module \in {"cells_admin", "discipleship", "consolidation", "email"}
           THEN EditSet ELSE ReadSet

\* C14: for every canonical role and every module the matrix answers as the policy table
\* says (scope and action set), delete is allowed to admin_geral only, and a later call
\* answers as the first one did.
C14_MatrixIsThePolicyTable ==
  \A p \in DOMAIN trace :
    /\ pc[p] \in {"gate", "passed"} \/ trace[p].calls > 0 =>
         /\ loc[p].ctx.role \in {"admin_geral", "pastor_presidente", "pastor_rede",
                                 "lider_celula", "secretaria"}
         /\ loc[p].ctx.scope = PolicyScope(loc[p].ctx.role)
    /\ trace[p].calls > 0 =>
         /\ trace[p].allowed = (loc[p].action \in PolicyActions(loc[p].ctx.role, loc[p].module))
         /\ trace[p].allowed = trace[p].first
         /\ (trace[p].allowed /\ loc[p].action = "delete") => loc[p].ctx.role = "admin_geral"

\* a pastor_rede (network scope) was allowed to view cells_admin, twice
C14_Witness ==
  \E p \in DOMAIN trace :
    /\ trace[p].calls = 2
    /\ loc[p].ctx.role = "pastor_rede"
    /\ loc[p].ctx.scope = "network"
    /\ loc[p].module = "cells_admin"
    /\ loc[p].action = "view"
    /\ trace[p].allowed

C16_NormalizationOfStoredRoles ==
  \A p \in DOMAIN trace :
    LET stored == loc[p].stored
        role == loc[p].ctx.role
        Canonical == {"admin_geral", "pastor_presidente", "pastor_rede", "lider_celula",
                      "secretaria"}
    IN (pc[p] # "normalize" /\ stored # UnknownRole) =>
         /\ stored \in {"owner", "admin"} => role = "admin_geral"
         /\ stored \in {"leader", "member"} => role = "lider_celula"
         /\ stored \in Canonical => role = stored
         /\ role \in Canonical
         /\ normalizePanelRole(role) = role

\* a membership stored as member was normalized to lider_celula
C16_Witness ==
  \E p \in DOMAIN trace :
    /\ pc[p] = "scope"
    /\ loc[p].stored = "member"
    /\ loc[p].ctx.role = "lider_celula"

\* C17: a stored role outside the legacy and the canonical set makes the normalization
\* fail with InvalidRole; the unknown value is never handed on as the role.
C17_UnknownRoleIsInvalid ==
  \A p \in DOMAIN trace :
    (pc[p] # "normalize" /\ loc[p].stored \notin MemberRoles) =>
      /\ trace[p].err.kind = "InvalidRole"
      /\ loc[p].ctx.role # loc[p].stored

(***************************************************************************)
(* Properties of the access context and of cell visibility                  *)
(***************************************************************************)
ContextBuilt(p) ==
  /\ loc[p].route \in DOMAIN PanelRouteTable
  /\ loc[p].ctx # NoCtx
  /\ pc[p] \notin {"load", "load_scopes"}

AssignedNetworks(tenantId, userId) ==
  {r.network_id : r \in {s \in db : s.tbl = "user_network_scopes" /\ s.tenant_id = tenantId
                                      /\ s.user_id = userId}}

AssignedCells(tenantId, userId) ==
  {r.cell_id : r \in {s \in db : s.tbl = "user_cell_scopes" /\ s.tenant_id = tenantId
                                   /\ s.user_id = userId}}

\* C18: in a built context, scope all has no ids at all; scope network has exactly the
\* networks assigned to (tenant, user) and no cell ids; scope cell has exactly the cells
\* assigned to (tenant, user) and no network ids.
C18_ScopeIdsFollowScope ==
  \A p \in DOMAIN pc :
    ContextBuilt(p) =>
      LET ctx == loc[p].ctx
      IN /\ ctx.scope \in {"all", "network", "cell"}
         /\ ctx.scope = "all" => (ctx.networkIds = {} /\ ctx.cellIds = {})
         /\ ctx.scope = "network" =>
              /\ ctx.networkIds = AssignedNetworks(ctx.tenantId, ctx.userId)
              /\ ctx.cellIds = {}
         /\ ctx.scope = "cell" =>
              /\ ctx.cellIds = AssignedCells(ctx.tenantId, ctx.userId)
              /\ ctx.networkIds = {}
         /\ ctx.networkIds = {} \/ ctx.cellIds = {}

\* a network-scoped context was built for a user who has a network and a cell assigned
C18_Witness ==
  \E p \in DOMAIN pc :
    /\ ContextBuilt(p)
    /\ loc[p].ctx.scope = "network"
    /\ loc[p].ctx.networkIds # {}
    /\ AssignedCells(loc[p].ctx.tenantId, loc[p].ctx.userId) # {}

\* the request has its visible cells and has not answered yet
HasVisibleCells(p) ==
  /\ loc[p].route \in DOMAIN PanelRouteTable
  /\ PanelRouteTable[loc[p].route].visible
  /\ pc[p] = loc[p].route

ActiveCellsOf(tenantId) ==
  {c \in db : c.tbl = "cells" /\ c.tenant_id = tenantId /\ c.is_active}

\* C19: every cell getVisibleCells returns is an active cell of the actor's church; under
\* network scope it lies in one of the actor's networks, under cell scope it is one of
\* the actor's cells, and under scope all the result is every active cell of the church.
C19_VisibleCellsWithinScope ==
  \A p \in DOMAIN pc :
    HasVisibleCells(p) =>
      LET ctx == loc[p].ctx
      IN /\ loc[p].cells \subseteq ActiveCellsOf(ctx.tenantId)
         /\ ctx.scope = "network" => \A c \in loc[p].cells : c.network_id \in ctx.networkIds
         /\ ctx.scope = "cell" => \A c \in loc[p].cells : c.id \in ctx.cellIds
         /\ ctx.scope = "all" => loc[p].cells = ActiveCellsOf(ctx.tenantId)

\* a network-scoped actor sees some but not all of the active cells of the church
C19_Witness ==
  \E p \in DOMAIN pc :
    /\ HasVisibleCells(p)
    /\ loc[p].ctx.scope = "network"
    /\ loc[p].cells # {}
    /\ loc[p].cells # ActiveCellsOf(loc[p].ctx.tenantId)

(***************************************************************************)
(* Properties of the read routes                                            *)
(***************************************************************************)
\* request p is answered, its role being permitted to call the route
PermittedReadDone(p) ==
  /\ pc[p] = "done"
  /\ loc[p].route \in ReadRoutes
  /\ trace[p].failedAt # "gate"

\* the active cells of the actor's church that its scope rows reach
CellsInScope(p) ==
  LET ctx == loc[p].ctx
  IN {c \in ActiveCellsOf(loc[p].auth.tenantId) :
        /\ ctx.scope = "network" =>
             c.network_id \in AssignedNetworks(loc[p].auth.tenantId, loc[p].auth.userId)
        /\ ctx.scope = "cell" =>
             c.id \in AssignedCells(loc[p].auth.tenantId, loc[p].auth.userId)}

\* C20 as stated: with no visible cell, every read route the role may call answers 200
\* with empty lists, the dashboard with cells = 0.
C20_EmptyVisibilityGivesEmptyLists ==
  \A p \in DOMAIN pc :
    (PermittedReadDone(p) /\ CellsInScope(p) = {}) =>
      /\ out[p].status = 200
      /\ out[p].rows = {}
      /\ loc[p].route = "dashboard" => out[p].kpis.cells = 0

\* C20, amended: with no visible cell, every read route the role may call answers 200;
\* the routes that go through the visible cells (search, dashboard, cells, transfers
\* context, leader components, consolidation list) answer with empty lists, the
\* dashboard with cells = 0; network/gd answers with the meetings of the actor's assigned
\* networks under network scope (none without scope rows) and with the meetings of the
\* church otherwise.
C20_EmptyVisibilityNeverFails ==
  \A p \in DOMAIN pc :
    (PermittedReadDone(p) /\ CellsInScope(p) = {}) =>
      /\ out[p].status = 200
      /\ loc[p].route # "network_gd" => out[p].rows = {}
      /\ loc[p].route = "dashboard" =>
           out[p].kpis = [cells |-> 0, participants |-> 0, visitors |-> 0, finance |-> 0]
      /\ loc[p].route = "network_gd" =>
           out[p].rows =
             {g \in db : /\ g.tbl = "gd_controls"
                         /\ g.tenant_id = loc[p].auth.tenantId
                         /\ loc[p].ctx.scope = "network" =>
                              g.network_id \in AssignedNetworks(loc[p].auth.tenantId,
                                                                loc[p].auth.userId)}

\* a leader without scope rows asked for the dashboard of a church with active cells
C20_Witness ==
  \E p \in DOMAIN pc :
    /\ PermittedReadDone(p)
    /\ loc[p].route = "dashboard"
    /\ loc[p].ctx.scope = "cell"
    /\ ActiveCellsOf(loc[p].auth.tenantId) # {}
    /\ CellsInScope(p) = {}
    /\ out[p].status = 200
    /\ out[p].kpis.cells = 0

(***************************************************************************)
(* Properties of the scope snapshot                                         *)
(***************************************************************************)
\* what one step of request p does with the scope ids of its context
ScopeSnapshotStep(p) ==
  LET ctx == loc[p].ctx
      built == ContextBuilt(p) /\ pc[p] # "idle"
  IN \* the ids are read from the rows committed when the context is built
     /\ (pc[p] = "load_scopes" /\ pc'[p] # "load_scopes") =>
          /\ ctx.scope = "network" =>
               loc'[p].ctx.networkIds = AssignedNetworks(ctx.tenantId, ctx.userId)
          /\ ctx.scope = "cell" =>
               loc'[p].ctx.cellIds = AssignedCells(ctx.tenantId, ctx.userId)
     \* and stay as they are until the request has answered and the next one starts
     /\ (built /\ pc'[p] # "idle") => loc'[p].ctx = ctx
     \* the scoped query of network/gd uses the ids of the context
     /\ (built /\ pc[p] = "network_gd" /\ pc'[p] = "done") =>
          out'[p].rows = {g \in db : /\ g.tbl = "gd_controls"
                                     /\ g.tenant_id = ctx.tenantId
                                     /\ ctx.scope = "network" => g.network_id \in ctx.networkIds}
     \* and so does the visible-cells query
     /\ (built /\ pc[p] = "visible" /\ pc'[p] # "visible") =>
          loc'[p].cells = {c \in ActiveCellsOf(ctx.tenantId) :
                             /\ ctx.scope = "network" => c.network_id \in ctx.networkIds
                             /\ ctx.scope = "cell" => c.id \in ctx.cellIds}

\* C21: the networkIds and cellIds of an access context are a snapshot taken when the
\* context is built. A change of the user's scope rows committed after that and before
\* the request answers does not change the ids the request uses for its scoped queries;
\* the context of the user's next request is built from the changed rows.
C21_ScopeIdsAreASnapshot == [][\A p \in ScopeProcs : ScopeSnapshotStep(p)]_vars

\* a network-scoped request is about to run its scoped query with ids that are no longer
\* the user's assigned networks
C21_Witness ==
  \E p \in ScopeProcs :
    /\ pc[p] = "network_gd"
    /\ loc[p].ctx.scope = "network"
    /\ loc[p].ctx.networkIds # {}
    /\ loc[p].ctx.networkIds # AssignedNetworks(loc[p].ctx.tenantId, loc[p].ctx.userId)

(***************************************************************************)
(* Properties of registration followed by login                             *)
(***************************************************************************)
\* the client of registration p was answered 201 and has logged in since
LoggedAfterRegistration(p) == pc[p] = "logged" /\ tokens[p] # NoToken

LinksOf(rows) == {r \in rows : r.tbl = "participant_cell_links"}

\* the step in which request p commits its transfer and answers 201
TransferCommits(p) ==
  /\ pc[p] = "transfer_commit"
  /\ pc'[p] = "done"
  /\ out'[p].status = 201

\* what the committing step of request p does to the links and the logs
TransferFrame(p) ==
  LET body == loc[p].body
      named == Range(body.participantIds)
      touched(l) == l.participant_id \in named
                      /\ l.cell_id \in {body.sourceCellId, body.destinationCellId}
      newLogs == {r \in db' : r.tbl = "transfer_logs"} \ db
      newLogParticipants == {r \in db' : r.tbl = "transfer_log_participants"} \ db
  IN /\ \A x \in named :
          \E s \in LinksOf(db) :
            /\ s.participant_id = x
            /\ s.cell_id = body.sourceCellId
            /\ \A l \in LinksOf(db') :
                 /\ (l.participant_id = x /\ l.cell_id = body.sourceCellId) =>
                      l = [s EXCEPT !.is_active = FALSE]
                 /\ (l.participant_id = x /\ l.cell_id = body.destinationCellId) =>
                      (l.is_active /\ l.type = s.type)
            /\ \E l \in LinksOf(db') :
                 l.participant_id = x /\ l.cell_id = body.destinationCellId
     /\ {l \in LinksOf(db') : ~touched(l)} = {l \in LinksOf(db) : ~touched(l)}
     /\ {r \in db : r.tbl \in {"transfer_logs", "transfer_log_participants"}} \subseteq db'
     /\ Cardinality(newLogs) = 1
     /\ \A log \in newLogs :
          /\ log.source_cell_id = body.sourceCellId
          /\ log.destination_cell_id = body.destinationCellId
          /\ newLogParticipants =
               {[tbl |-> "transfer_log_participants", transfer_log_id |-> log.id,
                 participant_id |-> x] : x \in named}

\* C23: a committed POST /panel/transfers changes the links exactly so: for each
\* requested participant the (participant, source) link is inactive and the
\* (participant, destination) link exists and is active with the type the source link
\* had; every other link is as it was; exactly one transfer_logs row is added, and the
\* transfer_log_participants rows added are those of that log, one for each requested
\* participant.
C23_TransferFrame == [][\A p \in TransferProcs : TransferCommits(p) => TransferFrame(p)]_vars

\* the participant transferred earlier has been transferred back: the link that was
\* inactive in the destination is active again, with the type of the source link
C23_Witness ==
  \E p \in TransferProcs :
    /\ pc[p] = "done"
    /\ out[p].status = 201
    /\ loc[p].body.participantIds = <<ParticipantIdOf(1, 1)>>
    /\ LinkRow(ParticipantIdOf(1, 1), CellIdOf(1), TenantIdOf(1), "member", TRUE) \in db
    /\ LinkRow(ParticipantIdOf(1, 1), SecondCellId, TenantIdOf(1), "member", FALSE) \in db

\* the steps in which request p is checked: the comparison of the two cells when the
\* request arrives, and the SELECT of the source links
TransferRejection(p) ==
  LET sameCell == /\ pc[p] = "idle" /\ pc'[p] # "idle"
                  /\ loc'[p].route = "transfers"
                  /\ loc'[p].body.sourceCellId = loc'[p].body.destinationCellId
      body == loc[p].body
      selected == pc[p] = "transfer_select" /\ pc'[p] # "transfer_select"
                    /\ trace'[p].err # Fault
      matching == {l \in LinksOf(db) : /\ l.cell_id = body.sourceCellId
                                       /\ l.participant_id \in Range(body.participantIds)
                                       /\ l.is_active}
      rejected == /\ pc'[p] = "done"
                  /\ out'[p].status = 400
                  /\ tx'[p] = NoTx
                  /\ TransferData(db') = TransferData(db)
  IN /\ sameCell => rejected
     /\ selected => IF Cardinality(matching) # Len(body.participantIds)
                      THEN rejected
                      ELSE pc'[p] = "transfer_log"

\* C24: POST /panel/transfers is answered 400 and leaves every link and log row as it
\* was when source and destination are the same cell, or when the number of active
\* links of the source cell that match participantIds differs from the number of ids (a
\* participant without an active link there, or an id given twice).
C24_InvalidTransferIsRejected == [][\A p \in TransferProcs : TransferRejection(p)]_vars

\* an id given twice was answered 400 by the check of the row count
C24_Witness ==
  \E p \in TransferProcs :
    /\ pc[p] = "done"
    /\ out[p].status = 400
    /\ trace[p].failedAt = "transfer_select"
    /\ Len(loc[p].body.participantIds) = 2
    /\ Cardinality(Range(loc[p].body.participantIds)) = 1
    /\ TransferData(db) = TransferData(TransferWorld)

(***************************************************************************)
(* Properties of concurrent transfers                                       *)
(***************************************************************************)
\* the cells in which the participant has an active link
ActiveCellsOfParticipant(rows, participantId) ==
  {l.cell_id : l \in {r \in LinksOf(rows) : r.participant_id = participantId /\ r.is_active}}

\* C29: a transfer never duplicates an active link. When concurrent transfers of the
\* same participant out of the same cell to different cells have all finished, the
\* participant has an active link in no more cells than before; and a transfer about to
\* commit its log lists only participants whose source link its own transaction has
\* deactivated.
C29_TransferNeverDuplicatesActiveLink ==
  /\ (\A p \in DOMAIN pc : pc[p] = "done") =>
       \A x \in {l.participant_id : l \in LinksOf(db)} :
         Cardinality(ActiveCellsOfParticipant(db, x))
           <= Cardinality(ActiveCellsOfParticipant(RaceWorld, x))
  /\ \A p \in DOMAIN pc :
       (pc[p] = "transfer_commit" /\ loc[p].route = "transfers") =>
         \A t \in {r \in tx[p].ins : r.tbl = "transfer_log_participants"} :
           \E l \in tx[p].del :
             /\ l.tbl = "participant_cell_links"
             /\ l.participant_id = t.participant_id
             /\ l.cell_id = loc[p].body.sourceCellId
             /\ l.is_active

(***************************************************************************)
(* Properties of the promotion                                              *)
(***************************************************************************)
TypeRank(type) == IF type = "visitor" THEN 0 ELSE IF type = "congregated" THEN 1 ELSE 2

\* the (participant, from, to) of the history rows
HistoryOf(rows) ==
  {<<h.participant_id, h.from_type, h.to_type>> :
     h \in {r \in rows : r.tbl = "participant_status_history"}}

\* C25: a promotion moves the type of the active link exactly one step along
\* visitor -> congregated -> member for each successful call and never backwards; a call
\* on a member link changes nothing and writes no history row; a history row
\* (from_type, to_type) is written if and only if the type changed, in the same
\* transaction.
C25_PromotionIsOneStepForward ==
  [][LET changed == {pair \in LinksOf(db) \X LinksOf(db') :
                       /\ pair[1].participant_id = pair[2].participant_id
                       /\ pair[1].cell_id = pair[2].cell_id
                       /\ pair[1].type # pair[2].type}
         written == {r \in db' : r.tbl = "participant_status_history"} \ db
     IN /\ \A pair \in changed : TypeRank(pair[2].type) = TypeRank(pair[1].type) + 1
        /\ {<<h.participant_id, h.from_type, h.to_type>> : h \in written}
             = {<<pair[1].participant_id, pair[1].type, pair[2].type>> : pair \in changed}
        /\ \A p \in PromoteProcs :
             (pc[p] = "promote_commit" /\ pc'[p] = "done" /\ out'[p].status = 200) =>
               \E pair \in changed : pair[1].participant_id = loc[p].body.participantId]_vars

(***************************************************************************)
(* Properties of the consolidation detail                                   *)
(***************************************************************************)
\* the consolidation records of the actor's church that GET /panel/consolidation lists:
\* those whose participant has an active link to a cell the actor's scope reaches
RecordsInScope(p) ==
  {cr \in db : /\ cr.tbl = "consolidation_records"
               /\ cr.tenant_id = loc[p].auth.tenantId
               /\ \E l \in LinksOf(db) :
                    /\ l.participant_id = cr.participant_id
                    /\ l.tenant_id = cr.tenant_id
                    /\ l.is_active
                    /\ l.cell_id \in {c.id : c \in CellsInScope(p)}}

\* C26: a network- or cell-scoped actor reads through GET /panel/consolidation/:id only
\* records whose participant has an active link to a cell of the actor's visible set,
\* the records GET /panel/consolidation lists for that actor; a record of the same church
\* outside the actor's scope is not returned.
C26_DetailWithinScope ==
  \A p \in DOMAIN pc :
    /\ (pc[p] = "done" /\ loc[p].route = "consolidation_get" /\ out[p].status = 200
          /\ loc[p].ctx.scope \in {"network", "cell"}) =>
         {r \in out[p].rows : r.tbl = "consolidation_records"} \subseteq RecordsInScope(p)
    /\ (pc[p] = "done" /\ loc[p].route = "consolidation_list" /\ out[p].status = 200) =>
         out[p].rows = RecordsInScope(p)

(***************************************************************************)
(* Properties of the account deletion                                       *)
(***************************************************************************)
ActiveMembershipsOf(userId) ==
  {tm \in db : tm.tbl = "tenant_members" /\ tm.user_id = userId /\ tm.is_active}

\* C27: after DELETE /auth/me has committed, the caller's membership in the church of
\* the token is inactive, and the user row is soft-deleted if and only if the user has
\* no active membership left; whatever the interleaving of concurrent deletions of the
\* same user in different churches, no user has zero active memberships without being
\* soft-deleted.
C27_DeletedWhenNoMembershipIsLeft ==
  /\ \A p \in DOMAIN pc :
       (pc[p] = "done" /\ loc[p].route = "auth_delete_me" /\ out[p].status = 204) =>
         ~\E tm \in ActiveMembershipsOf(loc[p].auth.userId) : tm.tenant_id = loc[p].auth.tenantId
  /\ \A u \in {r \in db : r.tbl = "users"} :
       u.deleted <=> ActiveMembershipsOf(u.id) = {}

(***************************************************************************)
(* Properties of the two role normalizers                                   *)
(***************************************************************************)
\* the role stored in the membership row of (user, church)
StoredRoleOf(userId, tenantId) ==
  {tm.role : tm \in {r \in db : r.tbl = "tenant_members" /\ r.user_id = userId
                                  /\ r.tenant_id = tenantId}}

\* C28: the two role normalizers agree. The role login signs into a token for a
\* membership (normalizeRole) is the role the panel access context holds for the same
\* membership with the same stored role (normalizePanelRole), for each stored role
\* value.
C28_NormalizersAgree ==
  [][\A c \in Clients :
       (tokens'[c] # tokens[c] /\ tokens'[c] # NoToken) =>
         \A p \in DOMAIN pc :
           (/\ ContextBuilt(p)
            /\ loc[p].ctx.userId = tokens'[c].userId
            /\ loc[p].ctx.tenantId = tokens'[c].tenantId
            /\ StoredRoleOf(loc[p].ctx.userId, loc[p].ctx.tenantId) = {trace[p].seen.role}) =>
             loc[p].ctx.role = tokens'[c].role]_vars

(***************************************************************************)
(* Properties of the migration runner                                       *)
(***************************************************************************)
SchemaObjects(rows) == {r \in rows : r.tbl = "schema_objects"}

SchemaMigrations(rows) == {r \in rows : r.tbl = "schema_migrations"}

\* run p has started, and every file it loaded was recorded with the file's checksum
\* when it read schema_migrations
UpToDateAtStart(p) ==
  /\ pc[p] # "idle"
  /\ \A i \in DOMAIN loc[p].migrations :
       \E r \in loc[p].applied :
         r.version = loc[p].migrations[i].version /\ r.checksum = loc[p].migrations[i].checksum

\* a step that commits the SQL of a migration commits it for a version without a
\* schema_migrations row, together with that row, and a step that commits a
\* schema_migrations row commits the SQL of its version; nothing committed is undone
MigrationCommitsWhole ==
  LET applied == SchemaObjects(db') \ db
      recorded == SchemaMigrations(db') \ db
  IN /\ \A o \in applied :
          /\ ~\E r \in SchemaMigrations(db) : r.version = o.version
          /\ [tbl |-> "schema_migrations", version |-> o.version,
              checksum |-> getChecksum(o.sql)] \in recorded
     /\ \A r \in recorded : \E o \in applied : o.version = r.version
     /\ Cardinality(recorded) = Cardinality(applied)
     /\ SchemaObjects(db) \cup SchemaMigrations(db) \subseteq db'

\* C30: each migration file is applied at most once, and only while no
\* schema_migrations row exists for its version; the SQL of a migration and its
\* schema_migrations row are committed together or not at all; a run started when every
\* file is already recorded with an unchanged checksum applies nothing.
C30_MigrationsApplyOnce ==
  /\ [][MigrationCommitsWhole]_vars
  /\ [](\A v \in FileVersions :
          Cardinality({o \in SchemaObjects(db) : o.version = v}) <= 1)
  /\ [](\A p \in RunProcs :
          UpToDateAtStart(p) =>
            /\ ~tx[p].open
            /\ pc[p] \in {"run_next", "done"}
            /\ trace[p].err = NoError)

\* two runs met on the first file: one applied it, the other was stopped by the primary
\* key of schema_migrations and left nothing; and a run that found every file recorded
\* has ended without a transaction
C30_Witness ==
  \E p \in RunProcs, q \in RunProcs :
    /\ pc[p] = "done" /\ pc[q] = "done"
    /\ trace[p].err = PgError("23505", "schema_migrations_pkey")
    /\ trace[q].err = NoError
    /\ Len(loc[q].migrations) = NumMigrationFiles
    /\ {o.run : o \in SchemaObjects(db)} = {q}
    /\ Cardinality(SchemaMigrations(db)) = NumMigrationFiles

====
